---- MODULE Spec2Model ----
(***************************************************************************)
(* Model of the unified adapter: the execution service (AdapterService),   *)
(* the REST and message executors and the tool registry.                   *)
(*                                                                         *)
(* Python values are tagged records: None is [t |-> "none"], a str is      *)
(* [t |-> "str", v |-> s], a dict is [t |-> "dict", v |-> f] with f a      *)
(* function from its keys.  Tool names are sequences of characters, so     *)
(* that prefix tests and splitting are computed and not assumed.           *)
(***************************************************************************)
EXTENDS Integers, Sequences, FiniteSets, TLC

VARIABLES
    task,             \* per coroutine: position and locals of execute_tool / execute
    semaphore_value,  \* AdapterService.semaphore._value
    waiters,          \* AdapterService.semaphore._waiters (FIFO)
    max_retries,      \* [rest |-> RestExecutor.max_retries, mcp |-> McpExecutor.max_retries]
    now,              \* time.time()
    catalog,          \* the adapter_tools table of the ToolStore
    settings,         \* the allow-lists of Settings
    reg_cache,        \* ToolRegistry._cache
    reg_cache_timestamp,  \* ToolRegistry._cache_timestamp
    spec_cache,       \* OpenAPILoader._cache
    ltask,            \* per coroutine: position and locals of load_tools
    last_build,       \* the latest completed rebuild: its list and when it completed
    row_rev,          \* the content each catalog row has after the updates made to it
    pcall             \* a direct call of a helper: its arguments and what came of it

svars == <<task, semaphore_value, waiters, max_retries>>
rvars == <<now, catalog, settings, reg_cache, reg_cache_timestamp, spec_cache, ltask,
           last_build, row_rev>>
pvars == <<pcall>>
vars == <<svars, rvars, pvars>>

(***************************************************************************)
(* Bounds of the model and constants of the program.                       *)
(***************************************************************************)
MaxConcurrency == 2        \* settings.adapter_max_concurrency of the modelled service
MaxRetryBudget == 3        \* largest max_retries an executor is constructed with
RestDefaultRetries == 2
McpDefaultRetries == 1
RestBackoffCap == 6
McpBackoffCap == 4

AllTasks == {1, 2, 3}
ServiceTasks == {1}

(***************************************************************************)
(* Python values.                                                          *)
(***************************************************************************)
PyNone == [t |-> "none"]
PyStr(s) == [t |-> "str", v |-> s]
PyDict(f) == [t |-> "dict", v |-> f]
PyChars(s) == [t |-> "chars", v |-> s]      \* a str kept as its characters
EmptyMap == [k \in {} |-> PyNone]

Truthy(x) ==
    CASE x.t = "none" -> FALSE
      [] x.t = "str"  -> x.v # ""
      [] x.t = "chars" -> x.v # <<>>
      [] x.t = "dict" -> DOMAIN x.v # {}
      [] x.t = "list" -> x.items # <<>>
      [] x.t = "int" -> x.n # 0
      [] x.t = "bool" -> x.b
      [] x.t \in {"datetime", "ToolRecord"} -> TRUE

PyOr(a, b) == IF Truthy(a) THEN a ELSE b

DictGet(d, k, default) == IF k \in DOMAIN d THEN d[k] ELSE default

DictPop(d, k) == [j \in DOMAIN d \ {k} |-> d[j]]

IsStr(x, s) == x.t = "str" /\ x.v = s

(***************************************************************************)
(* Strings as character sequences.                                         *)
(***************************************************************************)
McpPrefix == <<"m", "c", "p", "_">>

StartsWith(s, p) == Len(s) >= Len(p) /\ SubSeq(s, 1, Len(p)) = p

\* s.split("_", 1)[0]: everything before the first underscore, or all of s
SplitFirst(s) ==
    LET idx == {i \in 1..Len(s) : s[i] = "_"}
    IN  IF idx = {} THEN s
        ELSE LET first == CHOOSE i \in idx : \A j \in idx : i <= j
             IN  SubSeq(s, 1, first - 1)

Mut_extract_tool_name(tool_name) ==
    IF StartsWith(tool_name, McpPrefix)
    THEN SubSeq(tool_name, 5, Len(tool_name))
    ELSE tool_name

_extract_tool_name(tool_name) ==
    IF StartsWith(tool_name, McpPrefix)
    THEN SplitFirst(SubSeq(tool_name, 5, Len(tool_name)))
    ELSE tool_name

(***************************************************************************)
(* Inputs of execute_tool: the tool, the payload dict and the request meta. *)
(***************************************************************************)
Name_mcp_gh_ls == <<"m", "c", "p", "_", "g", "h", "_", "l", "s">>
Name_mcp_a == <<"m", "c", "p", "_", "a">>
Name_gh_ls == <<"g", "h", "_", "l", "s">>
ToolNames == {Name_mcp_gh_ls, Name_mcp_a, Name_gh_ls}

\* models.CredentialRef (environment is passed through unchanged and left out)
CredentialRefs ==
    { [credential_id |-> PyNone, credential_name |-> PyNone, credential_type |-> PyNone],
      [credential_id |-> PyNone, credential_name |-> PyStr("cred"), credential_type |-> PyNone],
      [credential_id |-> PyNone, credential_name |-> PyNone, credential_type |-> PyStr("oauth")] }

\* models.AdapterTool: the fields execute_tool reads; an operation is TRUE when present
\* the execution descriptors: matching the type, of the other type, both, none
Descriptors ==
    { [adapter_type |-> "rest", rest_operation |-> TRUE, mcp_operation |-> FALSE],
      [adapter_type |-> "mcp", rest_operation |-> FALSE, mcp_operation |-> TRUE],
      [adapter_type |-> "rest", rest_operation |-> FALSE, mcp_operation |-> TRUE],
      [adapter_type |-> "mcp", rest_operation |-> FALSE, mcp_operation |-> FALSE],
      [adapter_type |-> "grpc", rest_operation |-> TRUE, mcp_operation |-> TRUE] }

Tools ==
    [ tool_name : ToolNames,
      descriptor : Descriptors,
      credential_mode : {PyStr("byo"), PyStr("hosted"), PyStr("legacy")},
      credential_ref : CredentialRefs ]

CallerCreds == PyDict([api_key |-> PyStr("caller-key")])
MetaCreds == PyDict([api_key |-> PyStr("meta-key")])
HostedCreds == PyDict([access_token |-> PyStr("hosted-secret")])

OptionalDicts(choices) ==
    LET keys == DOMAIN choices
    IN  UNION { [ks -> UNION {choices[k] : k \in ks}] : ks \in SUBSET keys }

\* every dict over a subset ks of the keys with d[k] among choices[k]
DictsOver(choices) ==
    { d \in OptionalDicts(choices) : \A k \in DOMAIN d : d[k] \in choices[k] }

\* every payload carries the business field "channel"
Payloads ==
    { PyDict(d) : d \in { e \in DictsOver(
        [ credentials |-> {PyNone, PyDict(EmptyMap), CallerCreds},
          token       |-> {PyNone, PyStr("xoxb")},
          channel     |-> {PyStr("general")} ]) : "channel" \in DOMAIN e } }

Metas ==
    {PyNone} \cup
    { PyDict(d) : d \in DictsOver(
        [ credentials     |-> {PyDict(EmptyMap), MetaCreds},
          credential_mode |-> {PyStr("byo"), PyStr("hosted"), PyStr("legacy")},
          tenant_id       |-> {PyStr("t1"), PyStr("t2")} ]) }

Requests == [tool : Tools, payload : Payloads, meta : Metas]

(***************************************************************************)
(* What the collaborators can answer.                                      *)
(***************************************************************************)
\* an upstream tool call: a response the executor returns, or an exception
AttemptOutcomes ==
    { [ok |-> TRUE, result |-> "result-a"], [ok |-> TRUE, result |-> "result-b"],
      [ok |-> FALSE, error |-> "HTTP 500"], [ok |-> FALSE, error |-> "timeout"] }

\* resolve_tool_credential (tenant + provider key): credentials, not found, or a failed call
ToolCredentialAnswers ==
    { [raised |-> FALSE, value |-> HostedCreds], [raised |-> FALSE, value |-> PyNone],
      [raised |-> TRUE, value |-> PyNone] }

\* AutomatosClient.resolve_credential: data, None (404 or no data), or raises
ResolveAnswers ==
    { [raised |-> FALSE, value |-> HostedCreds], [raised |-> FALSE, value |-> PyNone],
      [raised |-> FALSE, value |-> PyDict(EmptyMap)], [raised |-> TRUE, value |-> PyNone] }

\* AutomatosClient.get_credential_type_id: an id, None (404), or raises
TypeIdAnswers ==
    { [raised |-> FALSE, value |-> PyStr("type-7")], [raised |-> FALSE, value |-> PyNone],
      [raised |-> TRUE, value |-> PyNone] }

\* AutomatosClient.list_credentials: a list of credential names, or raises
ListAnswers ==
    { [raised |-> FALSE, value |-> <<>>], [raised |-> FALSE, value |-> <<PyStr("first")>>],
      [raised |-> TRUE, value |-> <<>>] }

(***************************************************************************)
(* A coroutine's state.                                                    *)
(***************************************************************************)
IdleTask ==
    [ pc |-> "idle",            \* where the coroutine is suspended
      frame |-> "none",         \* "service": in execute_tool; "executor": execute called directly
      req |-> PyNone,           \* the arguments of the call
      payload |-> PyNone,       \* the payload dict object (execute_tool pops from it)
      final_credentials |-> PyNone,
      credential_mode |-> PyNone,
      tenant_id |-> PyNone,
      resolved |-> FALSE,       \* _resolve_credentials_v2 has returned
      credentials |-> PyNone,   \* what it returned
      exec_payload |-> PyNone,  \* the payload the executor receives
      kind |-> "none",          \* which executor runs
      attempt |-> 0,
      last |-> PyNone,          \* how the latest upstream tool call ended
      log |-> <<>>,             \* the collaborator calls and sleeps of this call, in order
      acq |-> 0,                \* limiter slots taken by this call
      rel |-> 0,                \* limiter slots given back by this call
      own |-> PyNone,           \* the semaphore of the service constructed for this call
      outcome |-> PyNone ]

Msg(text) == [text |-> text, tool |-> <<>>]
MsgFor(text, tool_name) == [text |-> text, tool |-> tool_name]

_format_result(result) == [content |-> <<[type |-> "json", json |-> result]>>]

_format_error(message) ==
    [content |-> <<[type |-> "text", text |-> message]>>, is_error |-> TRUE]

Returned(value) == [kind |-> "returned", value |-> value]
Raised(exc, message) == [kind |-> "raised", exc |-> exc, message |-> message]

Cur == [task |-> task, value |-> semaphore_value, waiters |-> waiters]

Commit(st) ==
    /\ task' = st.task
    /\ semaphore_value' = st.value
    /\ waiters' = st.waiters

\* self.semaphore of the service the call runs on: the one of the server's service,
\* or the one of the service that the admin API constructed for the call
CurOf(t) ==
    IF task[t].own = PyNone THEN Cur
    ELSE [task |-> task, value |-> task[t].own.value, waiters |-> task[t].own.waiters]

CommitOf(t, st) ==
    IF task[t].own = PyNone THEN Commit(st)
    ELSE /\ task' = [st.task EXCEPT ![t].own = [value |-> st.value, waiters |-> st.waiters]]
         /\ UNCHANGED <<semaphore_value, waiters>>

(***************************************************************************)
(* asyncio.Semaphore as used by `async with self.semaphore`.               *)
(***************************************************************************)
Mut_locked(st) == FALSE

locked(st) == st.value = 0 \/ st.waiters # <<>>

\* _wake_up_next: the first waiter not yet woken gets the slot
_wake_up_next(st) ==
    LET cand == {i \in 1..Len(st.waiters) : st.task[st.waiters[i]].pc = "waiting"}
    IN  IF cand = {} THEN st
        ELSE LET i == CHOOSE c \in cand : \A d \in cand : c <= d
                 w == st.waiters[i]
             IN  [st EXCEPT !.value = @ - 1,
                            !.task[w].pc = "woken",
                            !.task[w].acq = @ + 1]

release(st, t) ==
    _wake_up_next([st EXCEPT !.value = @ + 1, !.task[t].rel = @ + 1])

\* the call ends: __aexit__ of the limiter, then the caller gets the outcome
Mut_Exit(st, t, outcome) ==
    IF st.task[t].frame = "service" /\ outcome.kind = "returned"
    THEN release([st EXCEPT !.task[t].pc = "done", !.task[t].outcome = outcome], t)
    ELSE [st EXCEPT !.task[t].pc = "done", !.task[t].outcome = outcome]

Exit(st, t, outcome) ==
    IF st.task[t].frame = "service"
    THEN release([st EXCEPT !.task[t].pc = "done", !.task[t].outcome = outcome], t)
    ELSE [st EXCEPT !.task[t].pc = "done", !.task[t].outcome = outcome]

(***************************************************************************)
(* RestExecutor.execute and McpExecutor.execute: the retry loop.           *)
(***************************************************************************)
Min(a, b) == IF a <= b THEN a ELSE b

BackoffCap(kind) == IF kind = "rest" THEN RestBackoffCap ELSE McpBackoffCap

Mut_backoff(kind, attempt) == Min(2 ^ (attempt - 1), BackoffCap(kind))

backoff(kind, attempt) == Min(2 ^ attempt, BackoffCap(kind))

\* the call enters the executor and issues its first request
execute(st, t, kind, payload, credentials) ==
    [st EXCEPT !.task[t].pc = "attempt",
               !.task[t].kind = kind,
               !.task[t].attempt = 1,
               !.task[t].exec_payload = payload,
               !.task[t].credentials = credentials,
               !.task[t].log = Append(@, [e |-> "request", attempt |-> 1])]

\* the executor returns: execute_tool wraps the result (service.py:108)
ExecutorReturns(st, t, result) ==
    IF st.task[t].frame = "service"
    THEN Exit(st, t, Returned(_format_result(result)))
    ELSE Exit(st, t, Returned(result))

\* the executor raises ExecutionError: execute_tool catches it (service.py:109-111)
ExecutorRaises(st, t, message) ==
    IF st.task[t].frame = "service"
    THEN Exit(st, t, Returned(_format_error(message)))
    ELSE Exit(st, t, Raised("ExecutionError", message))

Mut_RetriesExhausted(attempt, budget) == attempt > budget + 1

RetriesExhausted(attempt, budget) == attempt > budget

\* the except branch of the retry loop
AttemptFailed(st, t, error) ==
    LET tk == st.task[t]
    IN  IF RetriesExhausted(tk.attempt, max_retries[tk.kind])
        THEN ExecutorRaises(st, t, Msg(error))
        ELSE [st EXCEPT !.task[t].pc = "sleep",
                        !.task[t].log =
                            Append(@, [e |-> "sleep", seconds |-> backoff(tk.kind, tk.attempt)])]

(***************************************************************************)
(* AdapterService.execute_tool.                                            *)
(***************************************************************************)
\* the dispatch inside the try block (service.py:96-106)
Dispatch(st0, t, credentials) ==
    LET st == [st0 EXCEPT !.task[t].resolved = TRUE, !.task[t].credentials = credentials]
        tk == st.task[t]
        tool == tk.req.tool
    IN  IF tool.descriptor.adapter_type = "rest" /\ tool.descriptor.rest_operation
        THEN execute(st, t, "rest", tk.payload, credentials)
        ELSE IF tool.descriptor.adapter_type = "mcp" /\ tool.descriptor.mcp_operation
        THEN execute(st, t, "mcp", tk.payload, credentials)
        ELSE ExecutorRaises(st, t, Msg("Unsupported tool configuration"))

\* an exception leaves _resolve_credentials_v2, which is called before the try block
ResolutionRaises(st, t, exc, message) == Exit(st, t, Raised(exc, message))

\* the coroutine suspends in a call of the AutomatosClient
Await(st, t, op, args) ==
    [st EXCEPT !.task[t].pc = op,
               !.task[t].log = Append(@, [e |-> op, args |-> args])]

Mut_resolve_credentials_legacy(st, t) ==
    LET tk == st.task[t]
        tool == tk.req.tool
        ref == tool.credential_ref
    IN  IF IsStr(tool.credential_mode, "byo")
        THEN IF ~Truthy(tk.final_credentials)
             THEN ResolutionRaises(st, t, "ExecutionError",
                                   Msg("Missing credentials for BYO tool call"))
             ELSE Dispatch(st, t, tk.final_credentials)
        ELSE IF Truthy(ref.credential_id) \/ Truthy(ref.credential_name)
        THEN Await(st, t, "resolve_tool_credential",
                   <<tk.tenant_id, _extract_tool_name(tool.tool_name)>>)
        ELSE IF Truthy(ref.credential_type)
        THEN Await(st, t, "get_credential_type_id", <<ref.credential_type>>)
        ELSE ResolutionRaises(st, t, "ExecutionError",
                              Msg("Hosted credential reference missing"))

_resolve_credentials_legacy(st, t) ==
    LET tk == st.task[t]
        tool == tk.req.tool
        ref == tool.credential_ref
    IN  IF IsStr(tool.credential_mode, "byo")
        THEN IF ~Truthy(tk.final_credentials)
             THEN ResolutionRaises(st, t, "ExecutionError",
                                   Msg("Missing credentials for BYO tool call"))
             ELSE Dispatch(st, t, tk.final_credentials)
        ELSE IF Truthy(ref.credential_id) \/ Truthy(ref.credential_name)
        THEN Await(st, t, "resolve_credential",
                   <<ref.credential_id, ref.credential_name>>)
        ELSE IF Truthy(ref.credential_type)
        THEN Await(st, t, "get_credential_type_id", <<ref.credential_type>>)
        ELSE ResolutionRaises(st, t, "ExecutionError",
                              Msg("Hosted credential reference missing"))

Mut_resolve_credentials_v2(st, t) ==
    LET tk == st.task[t]
    IN  IF IsStr(tk.credential_mode, "hosted")
             \/ IsStr(tk.req.tool.credential_mode, "hosted")
        THEN Await(st, t, "resolve_tool_credential",
                   <<tk.tenant_id, _extract_tool_name(tk.req.tool.tool_name)>>)
        ELSE IF IsStr(tk.credential_mode, "byo")
        THEN IF ~Truthy(tk.final_credentials)
             THEN ResolutionRaises(st, t, "ExecutionError",
                                   Msg("Missing credentials for BYO tool call"))
             ELSE Dispatch(st, t, tk.final_credentials)
        ELSE _resolve_credentials_legacy(st, t)

_resolve_credentials_v2(st, t) ==
    LET tk == st.task[t]
    IN  IF IsStr(tk.credential_mode, "byo")
        THEN IF ~Truthy(tk.final_credentials)
             THEN ResolutionRaises(st, t, "ExecutionError",
                                   Msg("Missing credentials for BYO tool call"))
             ELSE Dispatch(st, t, tk.final_credentials)
        ELSE IF IsStr(tk.credential_mode, "hosted")
        THEN Await(st, t, "resolve_tool_credential",
                   <<tk.tenant_id, _extract_tool_name(tk.req.tool.tool_name)>>)
        ELSE _resolve_credentials_legacy(st, t)

Mut_StripCredentials(payload) == payload

\* payload.pop("credentials", None) leaves the dict without the key
StripCredentials(payload) == DictPop(payload, "credentials")

\* the body of `async with self.semaphore` up to its first suspension (service.py:60-94)
Body(st, t) ==
    LET r == st.task[t].req
        meta == IF Truthy(r.meta) THEN r.meta.v ELSE EmptyMap
        byo_credentials == DictGet(meta, "credentials", PyNone)
        popped == DictGet(r.payload.v, "credentials", PyNone)
        payload == StripCredentials(r.payload.v)
        payload_credentials ==
            IF ~Truthy(popped) /\ "token" \in DOMAIN payload
            THEN PyDict([k \in {"token"} |-> payload["token"]])
            ELSE popped
        final_credentials == PyOr(payload_credentials, byo_credentials)
        credential_mode ==
            IF Truthy(final_credentials) THEN PyStr("byo")
            ELSE DictGet(meta, "credential_mode", r.tool.credential_mode)
        tenant_id == DictGet(meta, "tenant_id", PyNone)
    IN  _resolve_credentials_v2(
            [st EXCEPT !.task[t].payload = PyDict(payload),
                       !.task[t].final_credentials = final_credentials,
                       !.task[t].credential_mode = credential_mode,
                       !.task[t].tenant_id = tenant_id], t)

(***************************************************************************)
(* Actions.  Each runs one coroutine from one suspension to the next.      *)
(***************************************************************************)
\* execute_tool is called: __aenter__ of the limiter, then the body if a slot is free
ExecuteTool(t, r) ==
    /\ task[t].pc = "idle"
    /\ LET st == [Cur EXCEPT !.task[t] = [IdleTask EXCEPT !.frame = "service", !.req = r]]
       IN  IF ~locked(st)
           THEN Commit(Body([st EXCEPT !.value = @ - 1, !.task[t].acq = @ + 1], t))
           ELSE Commit([st EXCEPT !.task[t].pc = "waiting",
                                  !.waiters = Append(@, t)])
    /\ UNCHANGED <<max_retries, rvars, pvars>>

\* a woken waiter runs: the rest of Semaphore.acquire, then the body
Resume(t) ==
    /\ task[t].pc = "woken"
    /\ LET rest == SelectSeq(waiters, LAMBDA w : w # t)
           st == [Cur EXCEPT !.waiters = rest]
           st2 == IF st.value > 0 THEN _wake_up_next(st) ELSE st
       IN  Commit(Body(st2, t))
    /\ UNCHANGED <<max_retries, rvars, pvars>>

\* resolve_tool_credential answers (service.py:149-160)
ResolveToolCredentialReturns(t, ans) ==
    /\ task[t].pc = "resolve_tool_credential"
    /\ CommitOf(t, IF ans.raised
                  THEN ResolutionRaises(CurOf(t), t, "HTTPError", Msg("upstream failure"))
                  ELSE IF ~Truthy(ans.value)
                  THEN ResolutionRaises(CurOf(t), t, "ExecutionError",
                           MsgFor("Hosted credential not found for tool in tenant",
                                  _extract_tool_name(task[t].req.tool.tool_name)))
                  ELSE Dispatch(CurOf(t), t, ans.value))
    /\ UNCHANGED <<max_retries, rvars, pvars>>

\* resolve_credential answers (service.py:178-186 and 198-206)
ResolveCredentialReturns(t, ans) ==
    /\ task[t].pc = "resolve_credential"
    /\ CommitOf(t, IF ans.raised
                  THEN ResolutionRaises(CurOf(t), t, "HTTPError", Msg("upstream failure"))
                  ELSE IF ~Truthy(ans.value)
                  THEN ResolutionRaises(CurOf(t), t, "ExecutionError",
                                        Msg("Hosted credential not found"))
                  ELSE Dispatch(CurOf(t), t, ans.value))
    /\ UNCHANGED <<max_retries, rvars, pvars>>

\* get_credential_type_id answers (service.py:189-194)
GetCredentialTypeIdReturns(t, ans) ==
    /\ task[t].pc = "get_credential_type_id"
    /\ CommitOf(t, IF ans.raised
                  THEN ResolutionRaises(CurOf(t), t, "HTTPError", Msg("upstream failure"))
                  ELSE IF ~Truthy(ans.value)
                  THEN Dispatch(CurOf(t), t, PyNone)
                  ELSE Await(CurOf(t), t, "list_credentials", <<ans.value>>))
    /\ UNCHANGED <<max_retries, rvars, pvars>>

\* list_credentials answers (service.py:192-203)
ListCredentialsReturns(t, ans) ==
    /\ task[t].pc = "list_credentials"
    /\ CommitOf(t, IF ans.raised
                  THEN ResolutionRaises(CurOf(t), t, "HTTPError", Msg("upstream failure"))
                  ELSE IF ans.value = <<>>
                  THEN ResolutionRaises(CurOf(t), t, "ExecutionError",
                                        Msg("Hosted credential not found"))
                  ELSE Await(CurOf(t), t, "resolve_credential", <<PyNone, ans.value[1]>>))
    /\ UNCHANGED <<max_retries, rvars, pvars>>

\* the upstream tool call of the current attempt completes
AttemptCompletes(t, out) ==
    /\ task[t].pc = "attempt"
    /\ LET st == [CurOf(t) EXCEPT !.task[t].last = out]
       IN  CommitOf(t, IF out.ok
                      THEN ExecutorReturns(st, t, out.result)
                      ELSE AttemptFailed(st, t, out.error))
    /\ UNCHANGED <<max_retries, rvars, pvars>>

\* asyncio.sleep(backoff) is over: the loop issues the next request
SleepDone(t) ==
    /\ task[t].pc = "sleep"
    /\ task' = [task EXCEPT ![t].pc = "attempt",
                            ![t].attempt = @ + 1,
                            ![t].log = Append(@, [e |-> "request",
                                                  attempt |-> task[t].attempt + 1])]
    /\ UNCHANGED <<semaphore_value, waiters, max_retries, rvars, pvars>>

\* the caller has its outcome; the coroutine object is gone
Reset(t) ==
    /\ task[t].pc = "done"
    /\ task' = [task EXCEPT ![t] = IdleTask]
    /\ UNCHANGED <<semaphore_value, waiters, max_retries, rvars, pvars>>

\* an executor is called directly, outside the service
ExecutorCall(t, kind) ==
    /\ task[t].pc = "idle"
    /\ Commit(execute([Cur EXCEPT !.task[t] = [IdleTask EXCEPT !.frame = "executor"]],
                      t, kind, PyDict([k \in {"channel"} |-> PyStr("general")]), PyNone))
    /\ UNCHANGED <<max_retries, rvars, pvars>>

\* no helper is being called directly
IdleCall == [pc |-> "idle"]

(***************************************************************************)
(* The tool registry: catalog, spec loader and ToolRegistry.load_tools.    *)
(***************************************************************************)
CacheSeconds == 2          \* settings.adapter_tool_cache_seconds of the modelled registry
SpecCacheSeconds == 3      \* OpenAPILoader.cache_seconds of the modelled loader
Horizon == 3               \* how far the clock runs

\* the clock starts late enough that the registry's timestamp 0.0 is long expired
StartTime == CacheSeconds + SpecCacheSeconds
MaxTime == StartTime + Horizon

LoadTasks == {1, 2}
RegistryCallers == {1}

Uppers == <<"A", "B", "C", "D", "E", "F", "G", "H", "I", "J", "K", "L", "M",
            "N", "O", "P", "Q", "R", "S", "T", "U", "V", "W", "X", "Y", "Z">>
Lowers == <<"a", "b", "c", "d", "e", "f", "g", "h", "i", "j", "k", "l", "m",
            "n", "o", "p", "q", "r", "s", "t", "u", "v", "w", "x", "y", "z">>
Digits == {"0", "1", "2", "3", "4", "5", "6", "7", "8", "9"}

IsAlnum(ch) ==
    \/ \E i \in 1..Len(Uppers) : Uppers[i] = ch \/ Lowers[i] = ch
    \/ ch \in Digits

Lower(ch) ==
    IF \E i \in 1..Len(Uppers) : Uppers[i] = ch
    THEN Lowers[CHOOSE i \in 1..Len(Uppers) : Uppers[i] = ch]
    ELSE ch

_sanitize_name(name) ==
    [i \in 1..Len(name) |-> IF IsAlnum(name[i]) THEN Lower(name[i]) ELSE "_"]

_format_tool_name(tool_name, method) ==
    McpPrefix \o _sanitize_name(tool_name) \o <<"_">> \o _sanitize_name(method)

Chars_http == <<"h", "t", "t", "p">>
Chars_call == <<"c", "a", "l", "l">>
Chars_slack == <<"s", "l", "a", "c", "k">>
Chars_github == <<"g", "i", "t", "h", "u", "b">>
Chars_post == <<"p", "o", "s", "t">>
Chars_ls == <<"l", "s">>

\* the rows the catalog can hold (tool_store.ToolRecord, the fields load_tools reads)
Rows ==
    [ i \in {1, 2, 3} |->
        CASE i = 1 ->
               [ id |-> 1, name |-> <<"S", "l", "a", "c", "k">>, provider |-> Chars_slack,
                 adapter_type |-> "rest", mcp_server_url |-> PyNone,
                 openapi_url |-> PyStr("https://slack/openapi.json"), base_url |-> PyNone,
                 operation_ids |-> <<>>, credential_mode |-> PyStr("hosted"),
                 credential_id |-> PyNone, credential_name |-> PyStr("slack-bot"),
                 auth_config |-> PyDict([k \in {"type"} |-> PyStr("bearer")]) ]
          [] i = 2 ->
               [ id |-> 2, name |-> <<"g", "h", "-", "h", "u", "b">>, provider |-> Chars_github,
                 adapter_type |-> "mcp",
                 mcp_server_url |-> PyChars(Chars_http \o <<":", "g", "h">>),
                 openapi_url |-> PyNone, base_url |-> PyNone,
                 operation_ids |-> <<Chars_ls>>, credential_mode |-> PyStr("byo"),
                 credential_id |-> PyNone, credential_name |-> PyNone,
                 auth_config |-> PyDict([k \in {"type", "name", "in"} |->
                                   CASE k = "type" -> PyStr("api_key")
                                     [] k = "name" -> PyStr("X-Key")
                                     [] OTHER -> PyStr("header")]) ]
          [] i = 3 ->
               [ id |-> 3, name |-> <<"w", "i", "k", "i">>, provider |-> <<"w", "i", "k", "i">>,
                 adapter_type |-> "rest", mcp_server_url |-> PyNone,
                 openapi_url |-> PyStr("https://wiki/openapi.json"), base_url |-> PyNone,
                 operation_ids |-> <<Chars_ls>>, credential_mode |-> PyStr("hosted"),
                 credential_id |-> PyNone, credential_name |-> PyNone,
                 auth_config |-> PyNone ] ]

RowIds == DOMAIN Rows

\* the contents an update can give a row: the wiki row gets an explicit base url
\* (1), or loses its document url (2)
Revisions(i) == IF i = 3 THEN {0, 1, 2} ELSE {0}

Row(i, rev) ==
    CASE i = 3 /\ rev = 1 -> [Rows[3] EXCEPT !.base_url = PyStr("https://wiki/api")]
      [] i = 3 /\ rev = 2 -> [Rows[3] EXCEPT !.base_url = PyStr("https://wiki/api"),
                                              !.openapi_url = PyNone]
      [] OTHER -> Rows[i]

\* the documents behind the OpenAPI urls; the wiki document declares no server
Web ==
    [ u \in {"https://slack/openapi.json", "https://wiki/openapi.json"} |->
        IF u = "https://slack/openapi.json"
        THEN PyDict([ k \in {"servers", "paths"} |->
               IF k = "servers"
               THEN <<PyDict([j \in {"url"} |-> PyStr("https://slack/api")])>>
               ELSE << [path |-> <<"/", "c", "h", "a", "t">>, method |-> "post",
                        operationId |-> PyChars(Chars_post)],
                       [path |-> <<"/", "c", "h", "a", "t">>, method |-> "options",
                        operationId |-> PyNone],
                       [path |-> <<"/", "l", "s">>, method |-> "get",
                        operationId |-> PyNone] >> ])
        ELSE PyDict([ k \in {"paths"} |->
               << [path |-> <<"/", "l", "s">>, method |-> "get",
                   operationId |-> PyChars(Chars_ls)] >> ]) ]

MethodChars(m) ==
    CASE m = "get" -> <<"g", "e", "t">>
      [] m = "post" -> Chars_post
      [] m = "put" -> <<"p", "u", "t">>
      [] m = "patch" -> <<"p", "a", "t", "c", "h">>
      [] m = "delete" -> <<"d", "e", "l", "e", "t", "e">>
      [] OTHER -> <<"x">>

RECURSIVE StripSlashes(_)
StripSlashes(s) ==
    IF s # <<>> /\ s[1] = "/" THEN StripSlashes(Tail(s))
    ELSE IF s # <<>> /\ s[Len(s)] = "/" THEN StripSlashes(SubSeq(s, 1, Len(s) - 1))
    ELSE s

\* OpenAPILoader._fallback_operation_id
_fallback_operation_id(method, path) ==
    LET stripped == StripSlashes(path)
        noBraces == SelectSeq(stripped, LAMBDA ch : ch \notin {"{", "}"})
        sanitized == [i \in 1..Len(noBraces) |->
                         IF noBraces[i] = "/" THEN "_" ELSE noBraces[i]]
    IN  MethodChars(method) \o <<"_">>
            \o (IF sanitized = <<>> THEN <<"r", "o", "o", "t">> ELSE sanitized)

RECURSIVE MapSeq(_, _)
MapSeq(f(_), s) == IF s = <<>> THEN <<>> ELSE <<f(Head(s))>> \o MapSeq(f, Tail(s))

\* OpenAPILoader.extract_operations, the paths flattened to (path, method) entries
extract_operations(spec) ==
    LET entries == SelectSeq(DictGet(spec.v, "paths", <<>>),
                     LAMBDA x : x.method \in {"get", "post", "put", "patch", "delete"})
        Op(x) == [ operation_id |-> IF Truthy(x.operationId) THEN x.operationId.v
                                    ELSE _fallback_operation_id(x.method, x.path),
                   method |-> x.method,
                   path |-> x.path ]
    IN  MapSeq(Op, entries)

_extract_server_url(spec) ==
    LET servers == DictGet(spec.v, "servers", <<>>)
    IN  IF servers = <<>> THEN PyNone
        ELSE IF servers[1].t = "dict" THEN DictGet(servers[1].v, "url", PyNone)
        ELSE PyNone

_build_credential_ref(tool) ==
    [ credential_id |-> tool.credential_id,
      credential_name |-> tool.credential_name,
      credential_type |-> PyNone ]

SeqToSet(s) == {s[i] : i \in 1..Len(s)}

\* the adapter_metadata dict of load_tools (tool_registry.py:43-51)
adapter_metadata(tool) ==
    PyDict([ k \in {"type", "openapi_url", "base_url", "auth", "credential_mode"} |->
               CASE k = "type" -> PyStr(tool.adapter_type)
                 [] k = "openapi_url" -> tool.openapi_url
                 [] k = "base_url" -> tool.base_url
                 [] k = "auth" -> tool.auth_config
                 [] OTHER -> tool.credential_mode ])

Mut_AllowedOps(tool, op_allowlist) == SeqToSet(tool.operation_ids)

\* allowed_ops of _build_rest_tools (tool_registry.py:88-90)
AllowedOps(tool, op_allowlist) == SeqToSet(tool.operation_ids) \cup op_allowlist

Mut_BaseUrl(tool, spec) == PyOr(tool.base_url, PyStr("https://localhost"))

\* base_url of _build_rest_tools (tool_registry.py:92)
BaseUrl(tool, spec) == PyOr(tool.base_url, _extract_server_url(spec))

\* _build_rest_tools once load_spec has answered (tool_registry.py:84-129)
BuildRestToolsFrom(tool, spec, op_allowlist) ==
    IF ~Truthy(spec) THEN <<>>
    ELSE
        LET operations == extract_operations(spec)
            allowed_ops == AllowedOps(tool, op_allowlist)
            base_url == BaseUrl(tool, spec)
            kept == SelectSeq(operations,
                        LAMBDA op : allowed_ops = {} \/ op.operation_id \in allowed_ops)
            Make(op) ==
                [ tool_name |-> _format_tool_name(tool.name, op.operation_id),
                  provider |-> tool.provider,
                  descriptor |-> [adapter_type |-> "rest", rest_operation |-> TRUE,
                                  mcp_operation |-> FALSE],
                  operation |-> [operation_id |-> op.operation_id, method |-> op.method,
                                 path |-> op.path, base_url |-> base_url],
                  credential_mode |-> tool.credential_mode,
                  credential_ref |-> _build_credential_ref(tool),
                  metadata |-> adapter_metadata(tool) ]
        IN  IF ~Truthy(base_url) THEN <<>> ELSE MapSeq(Make, kept)

\* the metadata _build_mcp_tools gives its tools (tool_registry.py:157)
mcp_metadata(tool) == PyDict([k \in {"credential_mode"} |-> tool.credential_mode])

Mut_build_mcp_tools(tool, allowlist) ==
    LET methods == IF tool.operation_ids = <<>> THEN <<Chars_call>> ELSE tool.operation_ids
        Make(m) ==
            [ tool_name |-> _format_tool_name(tool.name, m),
              provider |-> tool.provider,
              descriptor |-> [adapter_type |-> tool.adapter_type, rest_operation |-> FALSE,
                              mcp_operation |-> TRUE],
              operation |-> [method |-> m, server_url |-> tool.mcp_server_url],
              credential_mode |-> tool.credential_mode,
              credential_ref |-> _build_credential_ref(tool),
              metadata |-> mcp_metadata(tool) ]
    IN  IF ~Truthy(tool.mcp_server_url) THEN <<>> ELSE MapSeq(Make, methods)

_build_mcp_tools(tool, allowlist) ==
    LET methods == IF tool.operation_ids = <<>> THEN <<Chars_call>> ELSE tool.operation_ids
        kept == SelectSeq(methods,
                    LAMBDA m : ~(/\ allowlist # {}
                                 /\ _format_tool_name(tool.name, m) \notin allowlist
                                 /\ tool.name \notin allowlist))
        Make(m) ==
            [ tool_name |-> _format_tool_name(tool.name, m),
              provider |-> tool.provider,
              descriptor |-> [adapter_type |-> "mcp", rest_operation |-> FALSE,
                              mcp_operation |-> TRUE],
              operation |-> [method |-> m, server_url |-> tool.mcp_server_url],
              credential_mode |-> tool.credential_mode,
              credential_ref |-> _build_credential_ref(tool),
              metadata |-> mcp_metadata(tool) ]
    IN  IF ~Truthy(tool.mcp_server_url) THEN <<>> ELSE MapSeq(Make, kept)

Mut_list_tools(cat) == [i \in 1..Cardinality(RowIds) |-> Row(i, row_rev[i])]

\* ToolStore.list_tools(enabled_only=True), the rows in id order
list_tools(cat) ==
    LET ids == {i \in RowIds : cat[i] = "enabled"}
        RECURSIVE Asc(_)
        Asc(S) == IF S = {} THEN <<>>
                  ELSE LET m == CHOOSE x \in S : \A y \in S : x <= y
                       IN  <<Row(m, row_rev[m])>> \o Asc(S \ {m})
    IN  Asc(ids)

IdleLoad ==
    [ pc |-> "idle",          \* "fetch": suspended in the GET of load_spec
      mcp_tools |-> <<>>,     \* the rows read from the catalog
      i |-> 0,                \* the row the loop is at
      tools |-> <<>>,         \* the tools built so far
      called_at |-> 0,        \* the time of the call
      before |-> PyNone,      \* the latest completed rebuild when the call was made
      reads |-> 0,            \* catalog reads of this call
      fetches |-> 0,          \* load_spec calls of this call
      loaded |-> {},          \* the rows whose document load_spec returned to this call
      outcome |-> PyNone ]

RCur == [ltask |-> ltask, cache |-> reg_cache, timestamp |-> reg_cache_timestamp,
         specs |-> spec_cache, built |-> last_build]

RCommit(st) ==
    /\ ltask' = st.ltask
    /\ reg_cache' = st.cache
    /\ reg_cache_timestamp' = st.timestamp
    /\ spec_cache' = st.specs
    /\ last_build' = st.built

Mut_Fresh(timestamp, seconds) == now - timestamp > seconds

\* time.time() - timestamp < seconds
Fresh(timestamp, seconds) == now - timestamp < seconds

\* the end of a rebuild: the allow-list filter and the cache assignment (lines 65-70)
FinishBuild(st, t) ==
    LET allowlist == settings.tool_allowlist
        built == st.ltask[t].tools
        tools == IF allowlist # {}
                 THEN SelectSeq(built, LAMBDA x : x.tool_name \in allowlist
                                                  \/ x.provider \in allowlist)
                 ELSE built
    IN  [st EXCEPT !.cache = tools,
                   !.timestamp = now,
                   !.built = [list |-> tools, at |-> now,
                              read_at |-> st.ltask[t].called_at],
                   !.ltask[t].pc = "done",
                   !.ltask[t].outcome = Returned(tools)]

Mut_Suspend(st, t) == [st EXCEPT !.ltask[t].pc = "fetch", !.cache = st.ltask[t].tools]

\* the coroutine is suspended in the GET of load_spec (openapi.py:37)
Suspend(st, t) == [st EXCEPT !.ltask[t].pc = "fetch"]

RECURSIVE BuildLoop(_, _)
\* the for loop of load_tools from row i on, up to the next suspension (lines 42-63)
BuildLoop(st, t) ==
    LET lt == st.ltask[t]
    IN  IF lt.i > Len(lt.mcp_tools) THEN FinishBuild(st, t)
        ELSE
          LET tool == lt.mcp_tools[lt.i]
              Skip == BuildLoop([st EXCEPT !.ltask[t].i = @ + 1], t)
              Extend(more) == BuildLoop([st EXCEPT !.ltask[t].i = @ + 1,
                                                   !.ltask[t].tools = @ \o more], t)
          IN  IF tool.adapter_type = "rest"
              THEN IF ~Truthy(tool.openapi_url) THEN Skip
                   ELSE LET url == tool.openapi_url.v
                            cached == st.specs[url]
                            counted == [st EXCEPT !.ltask[t].fetches = @ + 1]
                        IN  IF Truthy(cached) /\ Fresh(cached.v["at"], SpecCacheSeconds)
                            THEN BuildLoop(
                                   [counted EXCEPT
                                      !.ltask[t].i = @ + 1,
                                      !.ltask[t].loaded = @ \cup {tool.id},
                                      !.ltask[t].tools = @ \o BuildRestToolsFrom(
                                          tool, cached.v["doc"], settings.operation_allowlist)], t)
                            ELSE Suspend(counted, t)
              ELSE IF Truthy(tool.mcp_server_url)
                      /\ StartsWith(tool.mcp_server_url.v, Chars_http)
              THEN Extend(_build_mcp_tools(tool, settings.tool_allowlist))
              ELSE Skip

\* load_tools is called (lines 33-41), then the loop up to its first suspension
LoadTools(t) ==
    /\ ltask[t].pc = "idle"
    /\ LET st == [RCur EXCEPT !.ltask[t] = [IdleLoad EXCEPT !.called_at = now,
                                                            !.before = last_build]]
       IN  IF reg_cache # <<>> /\ Fresh(reg_cache_timestamp, CacheSeconds)
           THEN RCommit([st EXCEPT !.ltask[t].pc = "done",
                                   !.ltask[t].outcome = Returned(reg_cache)])
           ELSE RCommit(BuildLoop([st EXCEPT !.ltask[t].mcp_tools = list_tools(catalog),
                                             !.ltask[t].reads = @ + 1,
                                             !.ltask[t].i = 1], t))
    /\ UNCHANGED <<now, catalog, row_rev, settings, svars, pvars>>

\* the GET of load_spec answers: a document, a non-200 status or a network failure
FetchReturns(t, answer) ==
    /\ ltask[t].pc = "fetch"
    /\ LET tool == ltask[t].mcp_tools[ltask[t].i]
           url == tool.openapi_url.v
           Continue(st, spec) ==
               BuildLoop([st EXCEPT
                   !.ltask[t].pc = "building",
                   !.ltask[t].i = @ + 1,
                   !.ltask[t].tools = @ \o BuildRestToolsFrom(
                       tool, spec, settings.operation_allowlist)], t)
       IN  RCommit(
             CASE answer = "ok" ->
                    Continue([RCur EXCEPT !.ltask[t].loaded = @ \cup {tool.id},
                                          !.specs[url] =
                                 PyDict([k \in {"at", "doc"} |->
                                            IF k = "at" THEN now ELSE Web[url]])],
                             Web[url])
               [] answer = "status" -> Continue(RCur, PyNone)
               [] answer = "unparsable" ->
                    [RCur EXCEPT !.ltask[t].pc = "done",
                                 !.ltask[t].outcome =
                                     Raised("JSONDecodeError", Msg("not a JSON document"))]
               [] OTHER ->
                    [RCur EXCEPT !.ltask[t].pc = "done",
                                 !.ltask[t].outcome = Raised("HTTPError", Msg("network failure"))])
    /\ UNCHANGED <<now, catalog, row_rev, settings, svars, pvars>>

\* the caller has its list; the coroutine object is gone
LoadReset(t) ==
    /\ ltask[t].pc = "done"
    /\ ltask' = [ltask EXCEPT ![t] = IdleLoad]
    /\ UNCHANGED <<now, catalog, row_rev, settings, reg_cache, reg_cache_timestamp,
                   spec_cache, last_build, svars, pvars>>

Tick ==
    /\ now < MaxTime
    /\ now' = now + 1
    /\ UNCHANGED <<catalog, row_rev, settings, reg_cache, reg_cache_timestamp, spec_cache,
                   ltask, last_build, svars, pvars>>

\* the admin API enables or disables a row
SetRow(i, status) ==
    /\ catalog[i] # status
    /\ catalog' = [catalog EXCEPT ![i] = status]
    /\ UNCHANGED <<now, row_rev, settings, reg_cache, reg_cache_timestamp, spec_cache,
                   ltask, last_build, svars, pvars>>

\* the admin API updates the content of a row
UpdateRow(i, rev) ==
    /\ rev \in Revisions(i)
    /\ row_rev[i] # rev
    /\ row_rev' = [row_rev EXCEPT ![i] = rev]
    /\ UNCHANGED <<now, catalog, settings, reg_cache, reg_cache_timestamp, spec_cache,
                   ltask, last_build, svars, pvars>>

AllowLists ==
    { [tool_allowlist |-> {}, operation_allowlist |-> {}],
      [tool_allowlist |-> {Chars_github}, operation_allowlist |-> {Chars_post}] }

RegistryAtStart ==
    /\ now = StartTime
    /\ reg_cache = <<>>
    /\ reg_cache_timestamp = 0
    /\ spec_cache = [u \in DOMAIN Web |-> PyNone]
    /\ ltask = [t \in LoadTasks |-> IdleLoad]
    /\ last_build = PyNone
    /\ row_rev = [i \in RowIds |-> 0]

InitRegistry ==
    /\ RegistryAtStart
    /\ catalog \in [RowIds -> {"enabled", "disabled"}]
    /\ settings \in AllowLists
    /\ task = [t \in AllTasks |-> IdleTask]
    /\ semaphore_value = MaxConcurrency
    /\ waiters = <<>>
    /\ max_retries = [rest |-> RestDefaultRetries, mcp |-> McpDefaultRetries]
    /\ pcall = IdleCall

FetchAnswers == {"ok", "status", "unparsable", "error"}

NextRegistry ==
    \/ \E t \in RegistryCallers : LoadTools(t)
    \/ \E t \in RegistryCallers :
          \E answer \in FetchAnswers : FetchReturns(t, answer)
    \/ \E t \in RegistryCallers : LoadReset(t)
    \/ Tick
    \/ \E i \in RowIds : \E status \in {"enabled", "disabled"} : SetRow(i, status)

SpecRegistry == InitRegistry /\ [][NextRegistry]_vars

\* the registry over every catalog content and allow-list, the clock standing still
Chars_gh_hub == <<"g", "h", "-", "h", "u", "b">>

BuildSettings ==
    [ tool_allowlist : { {}, {Chars_github}, {Chars_slack}, {Chars_gh_hub},
                         {_format_tool_name(Chars_slack, Chars_post)} },
      operation_allowlist : { {}, {Chars_post}, {Chars_ls} } ]

InitBuild ==
    /\ now = StartTime
    /\ reg_cache = <<>>
    /\ reg_cache_timestamp = 0
    /\ spec_cache = [u \in DOMAIN Web |-> PyNone]
    /\ ltask = [t \in LoadTasks |-> IdleLoad]
    /\ last_build = PyNone
    /\ catalog \in [RowIds -> {"enabled", "disabled"}]
    /\ row_rev \in { f \in [RowIds -> {0, 1, 2}] : \A i \in RowIds : f[i] \in Revisions(i) }
    /\ settings \in BuildSettings
    /\ task = [t \in AllTasks |-> IdleTask]
    /\ semaphore_value = MaxConcurrency
    /\ waiters = <<>>
    /\ max_retries = [rest |-> RestDefaultRetries, mcp |-> McpDefaultRetries]
    /\ pcall = IdleCall

NextBuild ==
    \/ \E t \in RegistryCallers : LoadTools(t)
    \/ \E t \in RegistryCallers : \E answer \in FetchAnswers : FetchReturns(t, answer)
    \/ \E t \in RegistryCallers : LoadReset(t)

SpecBuild == InitBuild /\ [][NextBuild]_vars

\* the registry while the admin API changes the catalog: the message row and the
\* wiki row are enabled and disabled, the wiki row is updated
ChangingRows == {2, 3}

InitCatalog ==
    /\ RegistryAtStart
    /\ catalog = [i \in RowIds |-> "enabled"]
    /\ settings = [tool_allowlist |-> {}, operation_allowlist |-> {}]
    /\ task = [t \in AllTasks |-> IdleTask]
    /\ semaphore_value = MaxConcurrency
    /\ waiters = <<>>
    /\ max_retries = [rest |-> RestDefaultRetries, mcp |-> McpDefaultRetries]
    /\ pcall = IdleCall

NextCatalog ==
    \/ \E t \in RegistryCallers : LoadTools(t)
    \/ \E t \in RegistryCallers : \E answer \in FetchAnswers : FetchReturns(t, answer)
    \/ \E t \in RegistryCallers : LoadReset(t)
    \/ Tick
    \/ \E i \in ChangingRows : \E status \in {"enabled", "disabled"} : SetRow(i, status)
    \/ \E i \in ChangingRows : \E rev \in Revisions(i) : UpdateRow(i, rev)

SpecCatalog == InitCatalog /\ [][NextCatalog]_vars

\* concurrent callers of load_tools over the message row and the wiki row, the
\* wiki row having a base url, while the message row is enabled and disabled
ToggledRows == {2}

\* the GET answers with a document
ConcFetchAnswers == {"ok"}

InitRegistryConc ==
    /\ now = StartTime
    /\ reg_cache = <<>>
    /\ reg_cache_timestamp = 0
    /\ spec_cache = [u \in DOMAIN Web |-> PyNone]
    /\ ltask = [t \in LoadTasks |-> IdleLoad]
    /\ last_build = PyNone
    /\ catalog = [i \in RowIds |-> IF i = 1 THEN "disabled" ELSE "enabled"]
    /\ row_rev = [i \in RowIds |-> IF i = 3 THEN 1 ELSE 0]
    /\ settings = [tool_allowlist |-> {}, operation_allowlist |-> {}]
    /\ task = [t \in AllTasks |-> IdleTask]
    /\ semaphore_value = MaxConcurrency
    /\ waiters = <<>>
    /\ max_retries = [rest |-> RestDefaultRetries, mcp |-> McpDefaultRetries]
    /\ pcall = IdleCall

NextRegistryConc ==
    \/ \E t \in LoadTasks : LoadTools(t)
    \/ \E t \in LoadTasks : \E answer \in ConcFetchAnswers : FetchReturns(t, answer)
    \/ \E t \in LoadTasks : LoadReset(t)
    \/ Tick
    \/ \E i \in ToggledRows : \E status \in {"enabled", "disabled"} : SetRow(i, status)

SpecRegistryConc == InitRegistryConc /\ [][NextRegistryConc]_vars

(***************************************************************************)
(* Helpers called directly: tool names and credential injection.           *)
(*                                                                         *)
(* A credentials dict keeps its insertion order: it is a sequence of       *)
(* items.  A str built by formatting is the sequence of its pieces.        *)
(***************************************************************************)
ODict(items) == [t |-> "odict", items |-> items]
Item(k, v) == [k |-> k, v |-> v]

HasKey(c, k) == \E i \in 1..Len(c.items) : c.items[i].k = k
ValueOf(c, k) == c.items[CHOOSE i \in 1..Len(c.items) : c.items[i].k = k].v

PyInt(n) == [t |-> "int", n |-> n]
PyBool(b) == [t |-> "bool", b |-> b]
PyList(s) == [t |-> "list", items |-> s]

\* str(value)
Str(value) ==
    CASE value.t = "str" -> value.v
      [] value.t = "int" -> ToString(value.n)
      [] value.t = "bool" -> IF value.b THEN "True" ELSE "False"
      [] value.t = "none" -> "None"

\* CredentialInjector._resolve_first_credential
_resolve_first_credential(credentials) ==
    LET full == SelectSeq(credentials.items, LAMBDA it : Truthy(it.v))
    IN  IF full = <<>> THEN PyNone ELSE PyStr(Str(full[1].v))

\* template.format(**credentials): the pieces, or the field that is missing
Format(template, credentials) ==
    LET missing == SelectSeq(template.parts,
                       LAMBDA part : part.kind = "field" /\ ~HasKey(credentials, part.v))
    IN  IF missing # <<>> THEN Raised("KeyError", Msg(missing[1].v))
        ELSE Returned([i \in 1..Len(template.parts) |->
                         IF template.parts[i].kind = "field"
                         THEN Str(ValueOf(credentials, template.parts[i].v))
                         ELSE template.parts[i].v])

NoAuth == [headers |-> EmptyMap, query |-> EmptyMap]

\* CredentialInjector.build_auth
build_auth(metadata, credentials) ==
    IF credentials = PyNone \/ credentials.items = <<>> THEN Returned(NoAuth)
    ELSE
      LET meta == IF Truthy(metadata) THEN metadata.v ELSE EmptyMap
          adapter_meta == DictGet(meta, "adapter", PyDict(EmptyMap))
          found == DictGet(adapter_meta.v, "auth", PyNone)
          auth == IF Truthy(found) THEN found.v ELSE EmptyMap
          auth_type == DictGet(auth, "type", PyNone)
      IN  IF auth_type = PyStr("api_key")
          THEN LET key_name == DictGet(auth, "name", PyStr("Authorization")).v
                   location == DictGet(auth, "in", PyStr("header"))
                   template == DictGet(auth, "value_template", PyNone)
                   first == _resolve_first_credential(credentials)
                   formatted == Format(template, credentials)
                   Place(value) ==
                       IF location = PyStr("query")
                       THEN Returned([headers |-> EmptyMap,
                                      query |-> [n \in {key_name} |-> value]])
                       ELSE Returned([headers |-> [n \in {key_name} |-> value],
                                      query |-> EmptyMap])
               IN  IF template # PyNone
                   THEN IF formatted.kind = "raised" THEN formatted
                        ELSE Place(formatted.value)
                   ELSE IF first = PyNone THEN Returned(NoAuth)
                   ELSE Place(<<first.v>>)
          ELSE IF auth_type = PyStr("bearer")
          THEN LET access == IF HasKey(credentials, "access_token")
                             THEN ValueOf(credentials, "access_token") ELSE PyNone
                   token == IF Truthy(access) THEN access
                            ELSE _resolve_first_credential(credentials)
               IN  IF Truthy(token)
                   THEN Returned([headers |-> [n \in {"Authorization"} |->
                                                  <<"Bearer ", Str(token)>>],
                                  query |-> EmptyMap])
                   ELSE Returned(NoAuth)
          ELSE Returned(NoAuth)

(***************************************************************************)
(* The request of the REST executor.  A url is the sequence of its pieces: *)
(* a piece is a "{key}" token, a "/" or text without braces.               *)
(***************************************************************************)
\* f"{{{key}}}"
Token(key) == "{" \o key \o "}"

RECURSIVE Rstrip(_)
\* base_url.rstrip("/")
Rstrip(url) ==
    IF url # <<>> /\ url[Len(url)] = "/" THEN Rstrip(SubSeq(url, 1, Len(url) - 1)) ELSE url

\* operation.method.upper()
Upper(method) ==
    CASE method = "get" -> "GET"
      [] method = "post" -> "POST"
      [] method = "put" -> "PUT"
      [] method = "patch" -> "PATCH"
      [] method = "delete" -> "DELETE"

\* json.dumps(value)
JsonDumps(value) == [json |-> value]

\* isinstance(value, (str, int, float, bool))
IsScalar(value) == value.t \in {"str", "int", "bool"}

Keys(payload) == { payload.items[i].k : i \in 1..Len(payload.items) }

\* RestExecutor._build_url
_build_url(base_url, path, payload) ==
    LET RECURSIVE Loop(_, _, _)
        Loop(url, used_keys, i) ==
            IF i > Len(payload.items) THEN [url |-> url, used_keys |-> used_keys]
            ELSE LET key == payload.items[i].k
                     token == Token(key)
                 IN  IF \E j \in 1..Len(url) : url[j] = token
                     THEN Loop([j \in 1..Len(url) |->
                                   IF url[j] = token THEN Str(payload.items[i].v)
                                   ELSE url[j]],
                               used_keys \cup {key}, i + 1)
                     ELSE Loop(url, used_keys, i + 1)
    IN  Loop(Rstrip(base_url) \o path, {}, 1)

\* RestExecutor._extract_query_params
_extract_query_params(payload, used_keys) ==
    [ key \in { k \in Keys(payload) :
                  k # "body" /\ k \notin used_keys /\ IsScalar(ValueOf(payload, k)) }
        |-> Str(ValueOf(payload, key)) ]

\* RestExecutor._extract_body_params
_extract_body_params(payload, exclude_keys) ==
    [ key \in { k \in Keys(payload) :
                  k \notin exclude_keys /\ ValueOf(payload, k) # PyNone }
        |-> IF IsScalar(ValueOf(payload, key)) THEN Str(ValueOf(payload, key))
            ELSE JsonDumps(ValueOf(payload, key)) ]

\* RestExecutor.execute up to the retry loop: the request it is going to send
rest_request(metadata, operation, payload, credentials) ==
    LET auth == build_auth(metadata, credentials)
        built == _build_url(operation.base_url, operation.path, payload)
        used_keys == built.used_keys
        method == Upper(operation.method)
        explicit_body == IF HasKey(payload, "body") THEN ValueOf(payload, "body") ELSE PyNone
        meta == IF Truthy(metadata) THEN metadata.v ELSE EmptyMap
        adapter_meta == DictGet(meta, "adapter", PyDict(EmptyMap))
        content_type == DictGet(adapter_meta.v, "content_type",
                                PyStr("application/x-www-form-urlencoded")).v
        body_params == _extract_body_params(payload, used_keys \cup {"operation"})
        Type(ct) == [n \in {"Content-Type"} |-> ct]
        Request(headers, query, body_data, form_data) ==
            Returned([ url |-> built.url,
                       headers |-> headers @@ auth.value.headers,
                       query |-> query @@ auth.value.query,
                       body_data |-> body_data,
                       form_data |-> form_data ])
    IN  IF auth.kind = "raised" THEN auth
        ELSE IF method \in {"POST", "PUT", "PATCH"}
        THEN IF explicit_body # PyNone
             THEN Request(Type("application/json"),
                          _extract_query_params(payload, used_keys \cup {"body"}),
                          JsonDumps(explicit_body), PyNone)
             ELSE IF DOMAIN body_params = {}
             THEN Request(EmptyMap, EmptyMap, PyNone, PyNone)
             ELSE IF content_type = "application/json"
             THEN Request(Type("application/json"), EmptyMap,
                          JsonDumps(PyDict(body_params)), PyNone)
             ELSE Request(Type("application/x-www-form-urlencoded"), EmptyMap,
                          PyNone, PyDict(body_params))
        ELSE Request(Type("application/json"),
                     _extract_query_params(payload, used_keys), PyNone, PyNone)

\* the (catalog name, operation) pairs whose names are composed
CatalogNames == { <<"S", "l", "a", "c", "k">>, Chars_slack, Chars_gh_hub,
                  <<"g", "h", "_", "h", "u", "b">>, <<"g", "h">> }
OperationNames == { Chars_ls, Chars_post, <<"h", "u", "b", "_", "l", "s">> }
NamePairs == [name : CatalogNames, op : OperationNames]

\* the auth configs a catalog entry declares
Dict3(k1, v1, k2, v2, k3, v3) ==
    PyDict([k \in {k1, k2, k3} |-> IF k = k1 THEN v1 ELSE IF k = k2 THEN v2 ELSE v3])

KeyTemplate ==
    [t |-> "template", parts |-> <<[kind |-> "lit", v |-> "Token "],
                                   [kind |-> "field", v |-> "api_key"]>>]

AuthConfigs ==
    { PyNone,
      PyDict([k \in {"type"} |-> PyStr("bearer")]),
      PyDict([k \in {"type"} |-> PyStr("api_key")]),
      Dict3("type", PyStr("api_key"), "name", PyStr("X-Key"), "in", PyStr("query")),
      Dict3("type", PyStr("api_key"), "name", PyStr("X-Key"), "value_template", KeyTemplate) }

\* the credentials mappings handed to build_auth
CredentialInputs ==
    { PyNone,
      ODict(<<>>),
      ODict(<<Item("access_token", PyStr("")), Item("api_key", PyNone)>>),
      ODict(<<Item("access_token", PyStr("tok"))>>),
      ODict(<<Item("token", PyStr("xoxb")), Item("access_token", PyStr("tok"))>>),
      ODict(<<Item("token", PyStr("")), Item("api_key", PyStr("k1"))>>),
      ODict(<<Item("token", PyStr("xoxb"))>>) }

\* tools whose metadata carries the auth config under "adapter"
AdapterMetadata(auth) ==
    PyDict([k \in {"adapter"} |-> PyDict([j \in {"auth"} |-> auth])])

(***************************************************************************)
(* Redaction of logged payloads (logging.py).  Field names are kept as     *)
(* their characters, so that the pattern search is computed.               *)
(***************************************************************************)
\* the alternatives of (token|secret|api[_-]?key|password)
SensitiveWords ==
    { <<"t", "o", "k", "e", "n">>, <<"s", "e", "c", "r", "e", "t">>, <<"a", "p", "i", "_", "k", "e", "y">>, <<"a", "p", "i", "-", "k", "e", "y">>, <<"a", "p", "i", "k", "e", "y">>, <<"p", "a", "s", "s", "w", "o", "r", "d">> }

\* _SENSITIVE_KEYS.search(key), with re.IGNORECASE
_SENSITIVE_KEYS(key) ==
    \E word \in SensitiveWords :
        \E i \in 0..(Len(key) - Len(word)) :
            \A j \in 1..Len(word) : Lower(key[i + j]) = word[j]

Redacted == PyStr("***REDACTED***")

RECURSIVE redact_payload(_)
\* logging.redact_payload
redact_payload(payload) ==
    PyDict([ key \in DOMAIN payload.v |->
               IF _SENSITIVE_KEYS(key) THEN Redacted
               ELSE IF payload.v[key].t = "dict" THEN redact_payload(payload.v[key])
               ELSE payload.v[key] ])

Dict1(k, v) == PyDict([x \in {k} |-> v])
Dict2(k1, v1, k2, v2) == PyDict([x \in {k1, k2} |-> IF x = k1 THEN v1 ELSE v2])

\* the payloads that are logged
LoggedPayloads ==
    { Dict2(<<"u", "s", "e", "r">>, PyStr("bob"), <<"p", "a", "s", "s", "w", "o", "r", "d">>, PyStr("s3cr3t")),
      Dict2(<<"u", "s", "e", "r">>, PyStr("bob"), <<"a", "u", "t", "h">>, Dict1(<<"A", "P", "I", "-", "K", "e", "y">>, PyStr("s3cr3t"))),
      Dict1(<<"a", "u", "t", "h">>, Dict1(<<"u", "s", "e", "r">>, Dict2(<<"c", "l", "i", "e", "n", "t", "_", "s", "e", "c", "r", "e", "t">>, PyStr("s3cr3t"), <<"a", "p", "i", "k", "e", "y">>, PyInt(7)))),
      Dict1(<<"T", "o", "k", "e", "n">>, Dict1(<<"u", "s", "e", "r">>, PyStr("s3cr3t"))),
      Dict2(<<"u", "s", "e", "r">>, PyStr("bob"), <<"t", "o", "k", "e", "n", "s">>, PyList(<<PyStr("s3cr3t")>>)),
      Dict1(<<"i", "t", "e", "m", "s">>, PyList(<<Dict1(<<"p", "a", "s", "s", "w", "o", "r", "d">>, PyStr("s3cr3t"))>>)),
      Dict2(<<"u", "s", "e", "r">>, PyStr("bob"), <<"i", "t", "e", "m", "s">>, PyList(<<PyStr("a"), PyInt(1)>>)) }

\* the REST operations, payloads and tools a request is built for
RestOperations ==
    [ method : {"get", "delete", "post"},
      path : { <<"/users/", "{id}", "/posts">>, <<"/posts">> },
      base_url : { <<"https://api">>, <<"https://api", "/">> } ]

RestPayloads ==
    { ODict(<<>>),
      ODict(<<Item("id", PyInt(42)), Item("limit", PyInt(5))>>),
      ODict(<<Item("id", PyStr("{limit}")), Item("limit", PyInt(5))>>),
      ODict(<<Item("limit", PyInt(5)), Item("id", PyStr("{limit}"))>>),
      ODict(<<Item("id", PyInt(42)), Item("body", PyStr("hello"))>>),
      ODict(<<Item("id", PyStr("u1")), Item("body", PyDict([text |-> PyStr("hello")])),
              Item("limit", PyInt(5))>>),
      ODict(<<Item("id", PyInt(42)), Item("q", PyNone), Item("dry_run", PyBool(TRUE)),
              Item("tags", PyList(<<PyStr("a")>>))>>),
      \* a field named like the query parameter of the injected key; its text is
      \* written in pieces, as the injector writes the texts it builds
      ODict(<<Item("id", PyInt(42)), Item("X-Key", PyStr(<<"mine">>))>>) }

RestMetadata ==
    { PyNone,
      AdapterMetadata(Dict3("type", PyStr("api_key"), "name", PyStr("X-Key"),
                            "in", PyStr("query"))),
      PyDict([k \in {"adapter"} |->
                 PyDict([j \in {"content_type"} |-> PyStr("application/json")])]) }

RestCredentials == { PyNone, ODict(<<Item("api_key", PyStr("k1"))>>) }

\* a name pair is composed twice over, or credentials are injected for a tool:
\* one that the registry is to build from a catalog entry, or one given as is
HelperCalls ==
    [pc : {"ready"}, fn : {"_format_tool_name"}, a : NamePairs, b : NamePairs]
    \cup [pc : {"entry"}, fn : {"build_auth"},
           entry : { [Rows[i] EXCEPT !.auth_config = auth] :
                       i \in {1, 2}, auth \in AuthConfigs },
           credentials : CredentialInputs]
    \cup [pc : {"ready"}, fn : {"build_auth"},
           metadata : {PyNone} \cup { AdapterMetadata(auth) : auth \in AuthConfigs },
           credentials : CredentialInputs]
    \cup [pc : {"ready"}, fn : {"redact_payload"}, payload : LoggedPayloads]
    \cup [pc : {"ready"}, fn : {"rest_request"}, metadata : RestMetadata,
           operation : RestOperations, payload : RestPayloads,
           credentials : RestCredentials]

\* _format_tool_name is applied to both pairs
FormatNames ==
    /\ pcall.pc = "ready" /\ pcall.fn = "_format_tool_name"
    /\ pcall' = [pc |-> "done", fn |-> pcall.fn, a |-> pcall.a, b |-> pcall.b,
                 ra |-> _format_tool_name(pcall.a.name, pcall.a.op),
                 rb |-> _format_tool_name(pcall.b.name, pcall.b.op)]
    /\ UNCHANGED <<svars, rvars>>

\* the registry builds the tool of the entry: its metadata is what the builder of
\* its kind attaches (tool_registry.py:124, 157)
BuildTool ==
    /\ pcall.pc = "entry"
    /\ pcall' = [pc |-> "built", fn |-> pcall.fn, entry |-> pcall.entry,
                 credentials |-> pcall.credentials,
                 metadata |-> IF pcall.entry.adapter_type = "rest"
                              THEN adapter_metadata(pcall.entry)
                              ELSE mcp_metadata(pcall.entry)]
    /\ UNCHANGED <<svars, rvars>>

\* the executor asks the injector for the auth of the call (executors.py:80-81)
BuildAuth ==
    /\ pcall.pc \in {"built", "ready"} /\ pcall.fn = "build_auth"
    /\ pcall' = [pc |-> "done", fn |-> pcall.fn,
                 from_entry |-> pcall.pc = "built",
                 auth |-> IF pcall.pc = "built" THEN pcall.entry.auth_config
                          ELSE IF pcall.metadata = PyNone THEN PyNone
                          ELSE pcall.metadata.v["adapter"].v["auth"],
                 credentials |-> pcall.credentials,
                 outcome |-> build_auth(pcall.metadata, pcall.credentials)]
    /\ UNCHANGED <<svars, rvars>>

\* the REST executor builds the request of a call (executors.py:77-120)
BuildRequest ==
    /\ pcall.pc = "ready" /\ pcall.fn = "rest_request"
    /\ pcall' = [pc |-> "done", fn |-> pcall.fn, metadata |-> pcall.metadata,
                 operation |-> pcall.operation, payload |-> pcall.payload,
                 credentials |-> pcall.credentials,
                 outcome |-> rest_request(pcall.metadata, pcall.operation,
                                          pcall.payload, pcall.credentials)]
    /\ UNCHANGED <<svars, rvars>>

\* a payload is redacted for a log line (service.py:60, executors.py:163, 247)
Redact ==
    /\ pcall.pc = "ready" /\ pcall.fn = "redact_payload"
    /\ pcall' = [pc |-> "done", fn |-> pcall.fn, payload |-> pcall.payload,
                 outcome |-> Returned(redact_payload(pcall.payload))]
    /\ UNCHANGED <<svars, rvars>>

InitHelpers ==
    /\ pcall \in HelperCalls
    /\ RegistryAtStart
    /\ catalog = [i \in RowIds |-> "enabled"]
    /\ settings = [tool_allowlist |-> {}, operation_allowlist |-> {}]
    /\ task = [t \in AllTasks |-> IdleTask]
    /\ semaphore_value = MaxConcurrency
    /\ waiters = <<>>
    /\ max_retries = [rest |-> RestDefaultRetries, mcp |-> McpDefaultRetries]

NextHelpers == FormatNames \/ BuildTool \/ BuildAuth \/ BuildRequest \/ Redact

SpecHelpers == InitHelpers /\ [][NextHelpers]_vars

(***************************************************************************)
(* The spec loader called directly: OpenAPILoader.load_spec over its       *)
(* per-url cache, the GET answering with any document, status or failure.  *)
(***************************************************************************)
\* the documents a GET of a document url can answer with
LoaderDocs == { Web[u] : u \in DOMAIN Web }

\* what client.get(url) comes back with: a response, or a network failure
Responses ==
    [kind : {"response"}, status_code : {200}, body : LoaderDocs \cup {PyStr("<html>")}]
    \cup [kind : {"response"}, status_code : {404, 500}, body : {PyStr("<html>")}]
    \cup {[kind |-> "error"]}

IdleSpecCall ==
    [ pc |-> "idle",        \* "get": suspended in the GET (openapi.py:37)
      url |-> "",
      had_entry |-> FALSE,  \* the cache held an entry for url when the call was made
      requests |-> 0,       \* GETs sent by this call
      status |-> 0,         \* the status code of the response, once there is one
      outcome |-> PyNone ]

Mut_StoreSpec(cache, url, data) ==
    [u \in DOMAIN cache |->
        IF u = url THEN PyDict([k \in {"at", "doc"} |-> IF k = "at" THEN now ELSE data])
        ELSE PyNone]

\* self._cache[url] = (time.time(), data)
StoreSpec(cache, url, data) ==
    [cache EXCEPT ![url] = PyDict([k \in {"at", "doc"} |-> IF k = "at" THEN now ELSE data])]

Mut_IsSuccess(response) == response.status_code < 500

\* not (response.status_code != 200)
IsSuccess(response) == response.status_code = 200

\* load_spec is called: the cache check, then the GET is sent (lines 32-37)
LoadSpec(t, url) ==
    /\ pcall[t].pc = "idle"
    /\ LET cached == spec_cache[url]
           call == [IdleSpecCall EXCEPT !.url = url, !.had_entry = cached # PyNone]
       IN  IF cached # PyNone /\ Fresh(cached.v["at"], SpecCacheSeconds)
           THEN pcall' = [pcall EXCEPT ![t] = [call EXCEPT !.pc = "done",
                                                   !.outcome = Returned(cached.v["doc"])]]
           ELSE pcall' = [pcall EXCEPT ![t] = [call EXCEPT !.pc = "get", !.requests = 1]]
    /\ UNCHANGED <<svars, rvars>>

\* the GET answers and load_spec runs to its end (lines 37-44)
GetReturns(t, response) ==
    /\ pcall[t].pc = "get"
    /\ LET url == pcall[t].url
           Done(outcome) ==
               pcall' = [pcall EXCEPT ![t].pc = "done", ![t].outcome = outcome,
                                      ![t].status = IF response.kind = "error" THEN 0
                                                    ELSE response.status_code]
       IN  IF response.kind = "error"
           THEN Done(Raised("HTTPError", Msg("network failure"))) /\ UNCHANGED spec_cache
           ELSE IF ~IsSuccess(response)
           THEN Done(Returned(PyNone)) /\ UNCHANGED spec_cache
           ELSE IF response.body.t # "dict"
           THEN Done(Raised("JSONDecodeError", Msg("not a JSON document")))
                /\ UNCHANGED spec_cache
           ELSE /\ spec_cache' = StoreSpec(spec_cache, url, response.body)
                /\ Done(Returned(response.body))
    /\ UNCHANGED <<svars, now, catalog, settings, reg_cache, reg_cache_timestamp,
                   ltask, last_build, row_rev>>

\* the caller has its answer
SpecCallReset(t) ==
    /\ pcall[t].pc = "done"
    /\ pcall' = [pcall EXCEPT ![t] = IdleSpecCall]
    /\ UNCHANGED <<svars, rvars>>

InitLoader ==
    /\ pcall = [t \in LoadTasks |-> IdleSpecCall]
    /\ RegistryAtStart
    /\ catalog = [i \in RowIds |-> "enabled"]
    /\ settings = [tool_allowlist |-> {}, operation_allowlist |-> {}]
    /\ task = [t \in AllTasks |-> IdleTask]
    /\ semaphore_value = MaxConcurrency
    /\ waiters = <<>>
    /\ max_retries = [rest |-> RestDefaultRetries, mcp |-> McpDefaultRetries]

NextLoader ==
    \/ \E t \in LoadTasks : \E url \in DOMAIN Web : LoadSpec(t, url)
    \/ \E t \in LoadTasks : \E response \in Responses : GetReturns(t, response)
    \/ \E t \in LoadTasks : SpecCallReset(t)
    \/ Tick

SpecLoader == InitLoader /\ [][NextLoader]_vars

(***************************************************************************)
(* Specifications.                                                         *)
(***************************************************************************)
InitService ==
    /\ task = [t \in AllTasks |-> IdleTask]
    /\ semaphore_value = MaxConcurrency
    /\ waiters = <<>>
    /\ max_retries = [rest |-> RestDefaultRetries, mcp |-> McpDefaultRetries]
    /\ RegistryAtStart
    /\ catalog = [i \in RowIds |-> "enabled"]
    /\ settings = [tool_allowlist |-> {}, operation_allowlist |-> {}]
    /\ pcall = IdleCall

Step(t) ==
    \/ \E ans \in ToolCredentialAnswers : ResolveToolCredentialReturns(t, ans)
    \/ \E ans \in ResolveAnswers : ResolveCredentialReturns(t, ans)
    \/ \E ans \in TypeIdAnswers : GetCredentialTypeIdReturns(t, ans)
    \/ \E ans \in ListAnswers : ListCredentialsReturns(t, ans)
    \/ \E out \in AttemptOutcomes : AttemptCompletes(t, out)
    \/ SleepDone(t)
    \/ Reset(t)

\* one caller at a time, every request
Init == InitService

Call(t) == task[t].pc = "idle" /\ \E r \in Requests : ExecuteTool(t, r)

Next == \E t \in ServiceTasks : Call(t) \/ Step(t)

Spec == Init /\ [][Next]_vars

\* concurrent callers of one service, the requests that take each way out
ConcRequests ==
    [ tool : [ tool_name : {Name_mcp_gh_ls},
               descriptor : { d \in Descriptors : d.adapter_type # "rest" /\ ~d.rest_operation },
               credential_mode : {PyStr("byo"), PyStr("hosted")},
               credential_ref : { c \in CredentialRefs : ~Truthy(c.credential_name)
                                                         /\ ~Truthy(c.credential_type) } ],
      payload : { p \in Payloads : "credentials" \notin DOMAIN p.v
                                   /\ ("token" \in DOMAIN p.v => Truthy(p.v["token"])) },
      meta : {PyNone} ]

CallConc(t) == task[t].pc = "idle" /\ \E r \in ConcRequests : ExecuteTool(t, r)

NextConc ==
    \E t \in AllTasks :
        \/ CallConc(t)
        \/ Resume(t)
        \/ \E ans \in ToolCredentialAnswers : ResolveToolCredentialReturns(t, ans)
        \/ \E out \in AttemptOutcomes : AttemptCompletes(t, out)
        \/ SleepDone(t)
        \/ Reset(t)

SpecConc == InitService /\ [][NextConc]_vars

(***************************************************************************)
(* The administrative execute actions (admin_api.py).  Each request builds *)
(* a ToolRegistry and an AdapterService of its own and executes through    *)
(* them.                                                                   *)
(***************************************************************************)
LowerAll(s) == [i \in 1..Len(s) |-> Lower(s[i])]

\* the tools the admin execute actions take for those of a catalog record
\* (admin_api.py:185-188 and 303-306)
provider_tools_of(tools, tool_record) ==
    LET tool_prefix == LowerAll(McpPrefix \o tool_record.name \o <<"_">>)
    IN  SelectSeq(tools, LAMBDA x : StartsWith(LowerAll(x.tool_name), tool_prefix))

\* the JSON bodies of the execute requests.  An operation, when given, is the
\* identifier of an operation of the entry, so that the exact match decides.
AdminBodies ==
    { [ operation |-> PyNone, params |-> [channel |-> PyStr("general")],
        credentials |-> CallerCreds, meta |-> PyNone ],
      [ operation |-> PyChars(Chars_post), params |-> [channel |-> PyStr("general")],
        credentials |-> PyNone, meta |-> PyDict([tenant_id |-> PyStr("t1")]) ] }

\* registry.load_tools() of the registry built for the request, every GET of a
\* document answering with it
AdminLoadTools(t) ==
    BuildLoop([ ltask |-> [x \in {t} |-> [IdleLoad EXCEPT !.mcp_tools = list_tools(catalog),
                                                            !.i = 1]],
                cache |-> <<>>,
                timestamp |-> 0,
                specs |-> [u \in DOMAIN Web |->
                              PyDict([k \in {"at", "doc"} |-> IF k = "at" THEN now ELSE Web[u]])],
                built |-> PyNone ], t).cache

\* POST /admin/tools/{tool_id}/execute up to `await registry.load_tools()`
AdminExecuteTool(t, tool_id, body) ==
    /\ task[t].pc = "idle"
    /\ LET tool_record == Row(tool_id, row_rev[tool_id])
           call == [IdleTask EXCEPT !.frame = "admin",
                                    !.req = [record |-> tool_record, body |-> body]]
       IN  IF catalog[tool_id] # "enabled"
           THEN task' = [task EXCEPT ![t] =
                            [call EXCEPT !.pc = "done",
                                         !.outcome = Returned([status_code |-> 400])]]
           ELSE task' = [task EXCEPT ![t] =
                            [call EXCEPT !.pc = "load_tools",
                                         !.own = [value |-> MaxConcurrency,
                                                  waiters |-> <<>>]]]
    /\ UNCHANGED <<semaphore_value, waiters, max_retries, rvars, pvars>>

\* load_tools answers; the handler picks the tool and awaits service.execute_tool
AdminToolsLoaded(t, answer) ==
    /\ task[t].pc = "load_tools"
    /\ LET tool_record == task[t].req.record
           body == task[t].req.body
           tools == AdminLoadTools(t)
           tool_prefix == LowerAll(McpPrefix \o tool_record.name \o <<"_">>)
           provider_tools == provider_tools_of(tools, tool_record)
           exact ==
               IF body.operation = PyNone THEN <<>>
               ELSE SelectSeq(provider_tools,
                        LAMBDA x : LowerAll(x.tool_name)
                                       = tool_prefix \o LowerAll(body.operation.v))
           meta == IF body.meta = PyNone THEN EmptyMap ELSE body.meta.v
           execution_payload ==
               [k \in DOMAIN body.params \cup {"operation"} |->
                   IF k = "operation"
                   THEN (IF body.operation = PyNone THEN PyStr("default") ELSE body.operation)
                   ELSE body.params[k]]
           execution_meta ==
               IF Truthy(body.credentials)
               THEN [k \in DOMAIN meta \cup {"credentials", "credential_mode"} |->
                        CASE k = "credentials" -> body.credentials
                          [] k = "credential_mode" -> PyStr("byo")
                          [] OTHER -> meta[k]]
               ELSE IF Truthy(DictGet(meta, "tenant_id", PyNone))
               THEN [k \in DOMAIN meta \cup {"credential_mode"} |->
                        IF k = "credential_mode" THEN PyStr("hosted") ELSE meta[k]]
               ELSE meta
           Respond(code) ==
               task' = [task EXCEPT ![t].pc = "done", ![t].own = PyNone,
                                    ![t].outcome = Returned([status_code |-> code])]
           Execute(adapter_tool) ==
               LET st == [CurOf(t) EXCEPT
                             !.task[t].frame = "service",
                             !.task[t].req = [tool |-> adapter_tool,
                                              payload |-> PyDict(execution_payload),
                                              meta |-> PyDict(execution_meta)]]
               IN  IF ~locked(st)
                   THEN CommitOf(t, Body([st EXCEPT !.value = @ - 1,
                                                    !.task[t].acq = @ + 1], t))
                   ELSE CommitOf(t, [st EXCEPT !.task[t].pc = "waiting",
                                               !.waiters = Append(@, t)])
       IN  IF answer = "error"
           THEN Respond(500) /\ UNCHANGED <<semaphore_value, waiters>>
           ELSE IF exact # <<>> THEN Execute(exact[1])
           ELSE IF provider_tools # <<>> THEN Execute(provider_tools[1])
           ELSE Respond(500) /\ UNCHANGED <<semaphore_value, waiters>>
    /\ UNCHANGED <<max_retries, rvars, pvars>>

\* POST /admin/tools/name/{tool_name}/execute: the lookup calls
\* store.get_tool_by_name, which ToolStore does not have
AdminExecuteToolByName(t, tool_name) ==
    /\ task[t].pc = "idle"
    /\ task' = [task EXCEPT ![t] =
                   [IdleTask EXCEPT !.frame = "admin", !.pc = "done",
                                    !.req = [name |-> tool_name],
                                    !.outcome = Raised("AttributeError",
                                                       Msg("get_tool_by_name"))]]
    /\ UNCHANGED <<semaphore_value, waiters, max_retries, rvars, pvars>>

\* executions through the MCP tool handlers and through the admin API at once
AdminTasks == {2, 3}

\* one caller of the server's handler never finds the server's semaphore taken, so
\* no task of this specification waits
NextAdmin ==
    \/ \E t \in AllTasks \ AdminTasks : CallConc(t)
    \/ \E t \in AdminTasks :
          \/ \E tool_id \in RowIds : \E body \in AdminBodies :
                AdminExecuteTool(t, tool_id, body)
          \/ \E answer \in {"ok", "error"} : AdminToolsLoaded(t, answer)
          \/ \E i \in RowIds : AdminExecuteToolByName(t, Rows[i].name)
    \/ \E t \in AllTasks :
          \/ \E ans \in ToolCredentialAnswers : ResolveToolCredentialReturns(t, ans)
          \/ \E out \in AttemptOutcomes : AttemptCompletes(t, out)
          \/ SleepDone(t)
          \/ Reset(t)

SpecAdmin == InitService /\ [][NextAdmin]_vars

\* the executors alone, constructed with every retry budget up to the bound
ExecutorTasks == {1, 2}

InitExecutor ==
    /\ task = [t \in AllTasks |-> IdleTask]
    /\ semaphore_value = MaxConcurrency
    /\ waiters = <<>>
    /\ max_retries \in [{"rest", "mcp"} -> 0..MaxRetryBudget]
    /\ RegistryAtStart
    /\ catalog = [i \in RowIds |-> "enabled"]
    /\ settings = [tool_allowlist |-> {}, operation_allowlist |-> {}]
    /\ pcall = IdleCall

NextExecutor ==
    \E t \in ExecutorTasks :
        \/ \E kind \in {"rest", "mcp"} : ExecutorCall(t, kind)
        \/ \E out \in AttemptOutcomes : AttemptCompletes(t, out)
        \/ SleepDone(t)
        \/ Reset(t)

SpecExecutor == InitExecutor /\ [][NextExecutor]_vars

(***************************************************************************)
(* Properties of the execution service and of the executors.               *)
(***************************************************************************)
CredentialOps ==
    {"resolve_tool_credential", "resolve_credential", "get_credential_type_id",
     "list_credentials"}

Events(t, ops) == SelectSeq(task[t].log, LAMBDA ev : ev.e \in ops)

InBody(t) == task[t].frame = "service" /\ task[t].pc \notin {"idle", "waiting", "woken"}

\* the call holds a limiter slot: acquired (or handed the slot on wake-up), not yet released
Holding(t) ==
    /\ task[t].frame = "service"
    /\ task[t].pc \in CredentialOps \cup {"woken", "attempt", "sleep"}

IsErrorEnvelope(o) ==
    /\ o.kind = "returned"
    /\ DOMAIN o.value = {"content", "is_error"}
    /\ o.value.is_error = TRUE
    /\ Len(o.value.content) = 1
    /\ DOMAIN o.value.content[1] = {"type", "text"}
    /\ o.value.content[1].type = "text"

IsResultEnvelope(o) ==
    /\ o.kind = "returned"
    /\ DOMAIN o.value = {"content"}
    /\ Len(o.value.content) = 1
    /\ DOMAIN o.value.content[1] = {"type", "json"}
    /\ o.value.content[1].type = "json"

\* C1: with adapter_max_concurrency = N, under every interleaving of concurrent
\* execute_tool calls the number of calls that hold a limiter slot (resolving
\* credentials, calling upstream, sleeping in backoff) never exceeds N.
C1_ConcurrencyCeiling ==
    /\ Cardinality({t \in AllTasks : Holding(t)}) <= MaxConcurrency
    /\ semaphore_value >= 0

C1_Witness ==
    /\ Cardinality({t \in AllTasks : Holding(t)}) = MaxConcurrency
    /\ \E t \in AllTasks : task[t].pc = "waiting"
    /\ \E t \in AllTasks : task[t].pc = "sleep"
    /\ \E t \in AllTasks : task[t].pc = "resolve_tool_credential"

\* C2: every call that acquired a slot releases it exactly once, whether it ends
\* with a success envelope, an error envelope or an exception; whenever no
\* execution is in flight all N slots are free.
C2_NoSlotLeak ==
    /\ \A t \in AllTasks :
          /\ task[t].rel <= task[t].acq
          /\ task[t].acq <= 1
          /\ (task[t].frame = "service" /\ task[t].pc = "done")
                => (task[t].acq = 1 /\ task[t].rel = 1)
          /\ Holding(t) => (task[t].acq = 1 /\ task[t].rel = 0)
    /\ (\A t \in AllTasks : task[t].pc \in {"idle", "done"})
          => (semaphore_value = MaxConcurrency /\ waiters = <<>>)

C2_Witness ==
    /\ semaphore_value = MaxConcurrency
    /\ \E a, b, c \in AllTasks :
          /\ task[a].pc = "done" /\ task[a].outcome.kind = "raised"
          /\ task[b].pc = "done" /\ IsErrorEnvelope(task[b].outcome)
          /\ task[c].pc = "done" /\ IsResultEnvelope(task[c].outcome)

\* C3: any failure of credential resolution inside execute_tool makes execute_tool
\* return an envelope with the error flag set and a message; it is never raised.
C3_CredentialFailureIsEnvelope ==
    \A t \in AllTasks :
        (task[t].frame = "service" /\ task[t].pc = "done" /\ ~task[t].resolved)
            => IsErrorEnvelope(task[t].outcome)

NoUsableDescriptor(tool) ==
    ~(\/ tool.descriptor.adapter_type = "rest" /\ tool.descriptor.rest_operation
      \/ tool.descriptor.adapter_type = "mcp" /\ tool.descriptor.mcp_operation)

\* C4: when the executor raises its terminal error, or the tool has no usable
\* execution descriptor, execute_tool returns an error envelope whose text is the
\* underlying message; a successful call returns the raw result as JSON content
\* with no error flag; every returned envelope has one of these two shapes.
C4_EnvelopeShapes ==
    \A t \in AllTasks :
        (task[t].frame = "service" /\ task[t].pc = "done") =>
            LET o == task[t].outcome
            IN  /\ NoUsableDescriptor(task[t].req.tool)
                      => /\ IsErrorEnvelope(o)
                         /\ o.value.content[1].text = Msg("Unsupported tool configuration")
                /\ (task[t].kind # "none" /\ ~task[t].last.ok)
                      => /\ IsErrorEnvelope(o)
                         /\ o.value.content[1].text = Msg(task[t].last.error)
                /\ (task[t].kind # "none" /\ task[t].last.ok)
                      => /\ IsResultEnvelope(o)
                         /\ o.value.content[1].json = task[t].last.result
                /\ o.kind = "returned" => (IsErrorEnvelope(o) \/ IsResultEnvelope(o))

TokenTakenAsCredentials(r) ==
    /\ "token" \in DOMAIN r.payload.v
    /\ ~("credentials" \in DOMAIN r.payload.v /\ Truthy(r.payload.v["credentials"]))

InExecutor(t) == task[t].frame = "service" /\ task[t].kind # "none"

\* C5 (as claimed): the payload handed to the executor contains neither the
\* 'credentials' field nor a 'token' field that was taken as the caller's credentials.
C5_NoCredentialFieldDispatched ==
    \A t \in AllTasks :
        InExecutor(t) =>
            /\ "credentials" \notin DOMAIN task[t].exec_payload.v
            /\ TokenTakenAsCredentials(task[t].req) => "token" \notin DOMAIN task[t].exec_payload.v

\* C5 (amended): the payload handed to the executor never contains the
\* 'credentials' field; every other field of the caller's payload, a 'token'
\* field taken as the caller's credentials included, is handed over unchanged.
C5_CredentialsFieldStripped ==
    \A t \in AllTasks :
        InExecutor(t) =>
            LET given == task[t].req.payload.v
                handed == task[t].exec_payload.v
            IN  /\ "credentials" \notin DOMAIN handed
                /\ DOMAIN handed = DOMAIN given \ {"credentials"}
                /\ \A k \in DOMAIN handed : handed[k] = given[k]

C5_Witness ==
    \E t \in AllTasks :
        /\ InExecutor(t)
        /\ task[t].pc = "attempt"
        /\ {"credentials", "token"} \subseteq DOMAIN task[t].req.payload.v
        /\ TokenTakenAsCredentials(task[t].req)
        /\ "token" \in DOMAIN task[t].exec_payload.v

MetaOf(r) == IF r.meta.t = "dict" THEN r.meta.v ELSE EmptyMap

\* the request carries credentials: a non-empty 'credentials' value in the payload
\* or in the meta, or a 'token' field in the payload
SuppliesCredentials(r) ==
    \/ "credentials" \in DOMAIN r.payload.v /\ Truthy(r.payload.v["credentials"])
    \/ "token" \in DOMAIN r.payload.v
    \/ "credentials" \in DOMAIN MetaOf(r) /\ Truthy(MetaOf(r)["credentials"])

\* C6: whenever the request supplies credentials the effective mode is BYO,
\* whatever the tool's declared mode, meta.credential_mode and tenant_id are, and
\* the execution calls no upstream credential-resolution operation.
C6_SuppliedCredentialsMeanByo ==
    \A t \in AllTasks :
        (InBody(t) /\ SuppliesCredentials(task[t].req)) =>
            /\ task[t].credential_mode = PyStr("byo")
            /\ Events(t, CredentialOps) = <<>>
            /\ task[t].resolved
            /\ Truthy(task[t].credentials)

C6_Witness ==
    \E t \in AllTasks :
        /\ task[t].pc = "done"
        /\ SuppliesCredentials(task[t].req)
        /\ task[t].req.tool.credential_mode = PyStr("hosted")
        /\ "tenant_id" \in DOMAIN MetaOf(task[t].req)
        /\ "credential_mode" \in DOMAIN MetaOf(task[t].req)
        /\ MetaOf(task[t].req)["credential_mode"] = PyStr("hosted")
        /\ "credentials" \notin DOMAIN task[t].req.payload.v
        /\ "token" \notin DOMAIN task[t].req.payload.v
        /\ IsResultEnvelope(task[t].outcome)

EffectiveHosted(r) ==
    /\ ~SuppliesCredentials(r)
    /\ IF "credential_mode" \in DOMAIN MetaOf(r)
       THEN MetaOf(r)["credential_mode"] = PyStr("hosted")
       ELSE r.tool.credential_mode = PyStr("hosted")

\* the first underscore-delimited segment of a composed name after its prefix
ProviderKey(name) ==
    LET rest == [i \in 1..(Len(name) - 4) |-> name[i + 4]]
        n == CHOOSE k \in 0..Len(rest) :
                 /\ \A i \in 1..k : rest[i] # "_"
                 /\ (k < Len(rest) => rest[k + 1] = "_")
    IN  [i \in 1..n |-> rest[i]]

\* C7: with no caller credentials, effective mode hosted and a tenant id, the
\* execution calls the upstream tool-credential resolution exactly once, before
\* any upstream tool call, with that tenant id and the provider key of the
\* composed tool name, and calls no other credential-resolution operation.
C7_HostedResolvesOnce ==
    \A t \in AllTasks :
        LET r == task[t].req
        IN  (/\ InBody(t)
             /\ EffectiveHosted(r)
             /\ "tenant_id" \in DOMAIN MetaOf(r)
             /\ StartsWith(r.tool.tool_name, McpPrefix)) =>
                /\ Len(Events(t, CredentialOps)) = 1
                /\ task[t].log[1] =
                      [e |-> "resolve_tool_credential",
                       args |-> <<MetaOf(r)["tenant_id"], ProviderKey(r.tool.tool_name)>>]

C7_Witness ==
    \E t \in AllTasks :
        LET r == task[t].req
        IN  /\ task[t].pc = "done"
            /\ EffectiveHosted(r)
            /\ "tenant_id" \in DOMAIN MetaOf(r)
            /\ MetaOf(r)["tenant_id"] = PyStr("t2")
            /\ r.tool.tool_name = Name_mcp_gh_ls
            /\ r.tool.credential_mode = PyStr("byo")
            /\ IsResultEnvelope(task[t].outcome)
            /\ Len(Events(t, {"request"})) = 3

DirectCall(t) == task[t].frame = "executor"

Requests_(t) == Len(Events(t, {"request"}))

\* C8: an executor with retry budget R makes at most R+1 upstream attempts per
\* execution; it returns at the first attempt that succeeds, and when all R+1
\* attempts fail it raises one terminal ExecutionError and attempts nothing more.
C8_AtMostBudgetPlusOneAttempts ==
    \A t \in AllTasks :
        DirectCall(t) =>
            LET R == max_retries[task[t].kind]
                o == task[t].outcome
            IN  /\ Requests_(t) = task[t].attempt
                /\ Requests_(t) <= R + 1
                /\ task[t].pc = "sleep" => Requests_(t) <= R
                /\ task[t].pc = "done" =>
                      /\ o.kind = "returned" => (task[t].last.ok /\ o.value = task[t].last.result)
                      /\ o.kind = "raised" =>
                            /\ ~task[t].last.ok
                            /\ Requests_(t) = R + 1
                            /\ o.exc = "ExecutionError"
                            /\ o.message = Msg(task[t].last.error)
                      /\ task[t].last.ok => o.kind = "returned"

C8_Witness ==
    \E a, b \in AllTasks :
        /\ DirectCall(a) /\ task[a].pc = "done" /\ task[a].kind = "rest"
        /\ max_retries["rest"] = RestDefaultRetries
        /\ task[a].outcome.kind = "raised" /\ Requests_(a) = RestDefaultRetries + 1
        /\ DirectCall(b) /\ task[b].pc = "done" /\ task[b].kind = "mcp"
        /\ max_retries["mcp"] = McpDefaultRetries
        /\ task[b].outcome.kind = "returned" /\ Requests_(b) = McpDefaultRetries + 1

\* the sleeps the claim names: min(2^k, 6) and min(2^k, 4) for k = 1, 2, ...
ExpectedSleep(kind, k) ==
    IF kind = "rest"
    THEN (IF k = 1 THEN 2 ELSE IF k = 2 THEN 4 ELSE 6)
    ELSE (IF k = 1 THEN 2 ELSE 4)

\* C9: within one execution the executor sleeps exactly once between two
\* consecutive attempts and never after the final failed attempt; the sleep after
\* the k-th failed attempt is min(2^k, 6) s (REST) or min(2^k, 4) s (message), so
\* the sleeps are non-decreasing and capped for every retry budget.
C9_BackoffSchedule ==
    \A t \in AllTasks :
        (DirectCall(t) /\ task[t].pc # "idle") =>
            LET log == task[t].log
                cap == IF task[t].kind = "rest" THEN 6 ELSE 4
            IN  /\ \A i \in 1..Len(log) :
                      IF i % 2 = 1
                      THEN log[i] = [e |-> "request", attempt |-> (i + 1) \div 2]
                      ELSE log[i] = [e |-> "sleep",
                                     seconds |-> ExpectedSleep(task[t].kind, i \div 2)]
                /\ (task[t].pc \in {"attempt", "done"}) => log[Len(log)].e = "request"
                /\ task[t].pc = "sleep" => log[Len(log)].e = "sleep"
                /\ \A i, j \in 1..Len(log) :
                      (i < j /\ log[i].e = "sleep" /\ log[j].e = "sleep")
                          => (log[i].seconds <= log[j].seconds /\ log[j].seconds <= cap)

C9_Witness ==
    \E a, b \in AllTasks :
        /\ DirectCall(a) /\ task[a].pc = "done" /\ task[a].kind = "rest"
        /\ task[a].outcome.kind = "raised"
        /\ Len(Events(a, {"sleep"})) = 3
        /\ Events(a, {"sleep"})[3].seconds = 6
        /\ DirectCall(b) /\ task[b].pc = "done" /\ task[b].kind = "mcp"
        /\ task[b].outcome.kind = "raised"
        /\ Len(Events(b, {"sleep"})) = 3
        /\ Events(b, {"sleep"})[3].seconds = 4

(***************************************************************************)
(* Properties of the tool registry.                                        *)
(***************************************************************************)
WithinWindow(t) ==
    /\ ltask[t].pc = "done"
    /\ ltask[t].before # PyNone
    /\ ltask[t].called_at - ltask[t].before.at < CacheSeconds

ServedFromCache(t) ==
    /\ ltask[t].outcome = Returned(ltask[t].before.list)
    /\ ltask[t].reads = 0
    /\ ltask[t].fetches = 0

\* C10 (as claimed): for every catalog content, a load_tools call made less than
\* adapter_tool_cache_seconds after a completed build returns the list of that
\* build and triggers no rebuild (no catalog read, no spec fetch).
C10_IdempotentWithinWindow ==
    \A t \in LoadTasks : WithinWindow(t) => ServedFromCache(t)

\* C10, the part the code keeps: a call within the window after a completed
\* build whose list is not empty is served from the cache; after a build that
\* produced an empty list the call reads the catalog again.
C10_IdempotentWhenNonEmpty ==
    \A t \in LoadTasks :
        WithinWindow(t) =>
            IF ltask[t].before.list # <<>>
            THEN ServedFromCache(t)
            ELSE ltask[t].reads = 1 \/ ltask[t].outcome.kind = "raised"

C10_Witness ==
    \E t \in LoadTasks :
        /\ WithinWindow(t)
        /\ ltask[t].called_at > ltask[t].before.at
        /\ Len(ltask[t].before.list) = 3
        /\ ServedFromCache(t)
        /\ \A i \in RowIds : catalog[i] = "disabled"

(***************************************************************************)
(* The content of a rebuild.                                               *)
(***************************************************************************)
\* a call of load_tools that rebuilt and returned its list
Rebuilt(t) ==
    /\ ltask[t].pc = "done"
    /\ ltask[t].reads = 1
    /\ ltask[t].outcome.kind = "returned"

RowsRead(t) == SeqToSet(ltask[t].mcp_tools)

\* the tools a row contributed to the list built by call t, before the tool
\* allow-list is applied (providers are unique among the rows)
Contributed(t, row) ==
    SelectSeq(ltask[t].tools,
              LAMBDA x : x.provider = row.provider
                         /\ x.descriptor.adapter_type = row.adapter_type)

\* the operation identifiers of the documents, as their authors would list them
DocOperationIds(url) ==
    IF url = "https://slack/openapi.json"
    THEN {Chars_post, <<"g", "e", "t", "_", "l", "s">>}
    ELSE {Chars_ls}

DocServerUrl(url) ==
    IF url = "https://slack/openapi.json" THEN PyStr("https://slack/api") ELSE PyNone

\* the operations of a row that pass the operation filter
Surviving(row) ==
    LET union == SeqToSet(row.operation_ids) \cup settings.operation_allowlist
        ids == DocOperationIds(row.openapi_url.v)
    IN  IF union = {} THEN ids ELSE ids \cap union

\* C14: when the spec fetch of one entry fails (non-success status, network
\* failure, unparsable document) load_tools still completes and returns, and the
\* tools of every message-kind entry it read are in the list it built.
C14_EntryFailureDoesNotAbort ==
    \A t \in LoadTasks :
        ltask[t].pc = "done" /\ ltask[t].reads = 1 =>
            /\ ltask[t].outcome.kind = "returned"
            /\ \A row \in RowsRead(t) :
                   row.adapter_type = "mcp" /\ settings.tool_allowlist = {}
                       => Len(Contributed(t, row)) = Len(row.operation_ids)

\* a REST row has what it takes to contribute tools
Eligible(t, row) ==
    /\ Truthy(row.openapi_url)
    /\ row.id \in ltask[t].loaded
    /\ Truthy(row.base_url) \/ Truthy(DocServerUrl(row.openapi_url.v))

C20_OperationFilter ==
    \A t \in LoadTasks :
        Rebuilt(t) =>
            \A row \in RowsRead(t) :
                row.adapter_type = "rest" /\ Eligible(t, row) =>
                    { x.operation.operation_id : x \in SeqToSet(Contributed(t, row)) }
                        = Surviving(row)

\* the wiki row keeps its own operation and gains none from the process-wide list
C20_Witness ==
    \E t \in LoadTasks :
        /\ Rebuilt(t)
        /\ settings.operation_allowlist = {Chars_post}
        /\ \E row \in RowsRead(t) :
              /\ row.id = 3
              /\ Eligible(t, row)
              /\ Len(Contributed(t, row)) = 1
        /\ \E row \in RowsRead(t) :
              /\ row.id = 1
              /\ Eligible(t, row)
              /\ Len(Contributed(t, row)) = 1

\* the names of the tools a row stands for
NamesOf(t, row) ==
    IF row.adapter_type = "rest"
    THEN { x.tool_name : x \in SeqToSet(Contributed(t, row)) }
    ELSE IF Truthy(row.mcp_server_url)
    THEN { _format_tool_name(row.name, m) : m \in SeqToSet(row.operation_ids) }
    ELSE {}

\* C19: with a tool allow-list configured load_tools returns exactly the built
\* tools, REST-kind and message-kind alike, whose composed name or whose provider
\* is in the list; with no allow-list nothing is removed.
C19_ToolAllowList ==
    \A t \in LoadTasks :
        Rebuilt(t) =>
            LET allow == settings.tool_allowlist
                result == ltask[t].outcome.value
                names == { x.tool_name : x \in SeqToSet(result) }
            IN  /\ \A x \in SeqToSet(result) :
                       allow # {} => x.tool_name \in allow \/ x.provider \in allow
                /\ \A row \in RowsRead(t) : \A n \in NamesOf(t, row) :
                       allow = {} \/ n \in allow \/ row.provider \in allow
                           => n \in names

(***************************************************************************)
(* Rebuilds and the catalog.                                               *)
(***************************************************************************)
\* the cache interval has elapsed since the last completed build, or there is none
Expired == last_build = PyNone \/ now - last_build.at >= CacheSeconds

\* the number of tools a row read by call t is to contribute
ExpectedCount(t, row) ==
    IF row.adapter_type = "mcp" THEN Len(row.operation_ids)
    ELSE IF Eligible(t, row) THEN Cardinality(Surviving(row))
    ELSE 0

\* a call made when the interval has elapsed reads the catalog as it is then
ReadsCatalogWhenExpired ==
    \A t \in LoadTasks :
        ltask[t].pc = "idle" /\ ltask'[t].pc # "idle" /\ Expired =>
            /\ ltask'[t].reads = 1
            /\ { row.id : row \in SeqToSet(ltask'[t].mcp_tools) }
                   = { i \in RowIds : catalog[i] = "enabled" }
            /\ \A row \in SeqToSet(ltask'[t].mcp_tools) : row = Row(row.id, row_rev[row.id])

\* the list a rebuild returns is made of the rows it read, each in full
ReflectsRowsRead ==
    \A t \in LoadTasks :
        Rebuilt(t) =>
            /\ \A x \in SeqToSet(ltask[t].outcome.value) :
                   \E row \in RowsRead(t) : x.provider = row.provider
            /\ \A row \in RowsRead(t) :
                   Len(SelectSeq(ltask[t].outcome.value,
                                 LAMBDA x : x.provider = row.provider))
                       = ExpectedCount(t, row)

Served(t) ==
    /\ ltask[t].pc = "done"
    /\ ltask[t].reads = 0
    /\ ltask[t].outcome.kind = "returned"

\* a list served from the cache rests on a catalog read no older than one cache
\* interval plus the duration of the build that made it
StalenessBound ==
    \A t \in LoadTasks :
        Served(t) =>
            LET b == ltask[t].before
            IN  /\ b # PyNone
                /\ ltask[t].outcome.value = b.list
                /\ ltask[t].called_at - b.read_at < CacheSeconds + (b.at - b.read_at)

\* a rebuild never replaces a cache built from a newer catalog read with a list
\* built from an older one
NoOlderReadReplacesNewer ==
    last_build # PyNone /\ last_build' # last_build
        => last_build'.read_at >= last_build.read_at

\* C12 (as claimed): under every interleaving of load_tools calls and catalog
\* changes, a rebuild that completes later never replaces a cache built from a
\* newer catalog read with a list built from an older one, and no list served
\* from the cache rests on a catalog read older than one cache interval plus the
\* duration of its own build.
C12_CacheNeverGoesBack == []StalenessBound /\ [][NoOlderReadReplacesNewer]_vars

\* C12 (amended): under every interleaving, no list served from the cache rests
\* on a catalog read older than one cache interval plus the duration of its own
\* build; rebuilds are not ordered, and the one that completes last fills the
\* cache whatever the age of its catalog read.
C12_ServedWithinInterval == StalenessBound

\* a list is served from a cache that a slow rebuild filled after a faster one
\* that had read the catalog later
C12_Witness ==
    \E t \in LoadTasks :
        /\ Served(t)
        /\ ltask[t].before.at > ltask[t].before.read_at
        /\ ltask[t].called_at > ltask[t].before.at
        /\ \E row \in {2} : catalog[row] = "disabled"
                               /\ \E x \in SeqToSet(ltask[t].outcome.value) :
                                      x.provider = Rows[row].provider

\* every list returned is the previous complete list or the whole output of the
\* caller's own rebuild, and the cache holds the list of the latest completed one
OnlyCompleteLists ==
    /\ reg_cache = IF last_build = PyNone THEN <<>> ELSE last_build.list
    /\ \A t \in LoadTasks :
           ltask[t].pc = "done" /\ ltask[t].outcome.kind = "returned" =>
               IF ltask[t].reads = 0
               THEN ltask[t].before # PyNone /\ ltask[t].outcome.value = ltask[t].before.list
               ELSE /\ ltask[t].i > Len(ltask[t].mcp_tools)
                    /\ \A row \in RowsRead(t) :
                           Len(SelectSeq(ltask[t].outcome.value,
                                         LAMBDA x : x.provider = row.provider))
                               = ExpectedCount(t, row)

\* the cache changes only by the assignment that ends a rebuild
CacheReplacedWhole ==
    reg_cache' # reg_cache =>
        \E t \in LoadTasks :
            /\ ltask[t].pc # "done"
            /\ ltask'[t].pc = "done"
            /\ ltask'[t].i > Len(ltask'[t].mcp_tools)
            /\ reg_cache' = ltask'[t].outcome.value

\* C13: while a rebuild is suspended at a spec fetch no caller observes a
\* partially built list: every list returned and every value of the cache is the
\* previous complete list or the complete output of one rebuild, the cache being
\* replaced by one assignment at the end of the rebuild.
C13_NoPartialList == []OnlyCompleteLists /\ [][CacheReplacedWhole]_vars

\* one caller is served the complete previous list while the rebuild of another
\* is suspended with part of its list built
C13_Witness ==
    \E t1, t2 \in LoadTasks :
        /\ ltask[t1].pc = "fetch"
        /\ ltask[t1].tools # <<>>
        /\ Served(t2)
        /\ ltask[t2].called_at >= ltask[t1].called_at
        /\ Len(ltask[t2].outcome.value) > Len(ltask[t1].tools)
        /\ reg_cache = ltask[t2].outcome.value

(***************************************************************************)
(* Tool names and credential injection.                                    *)
(***************************************************************************)
\* C16: composed tool names are deterministic and collision-free: the same
\* (catalog name, operation) pair always yields the same name, and two distinct
\* pairs yield different names.
C16_NamesCollisionFree ==
    pcall.pc = "done" /\ pcall.fn = "_format_tool_name"
        => (pcall.ra = pcall.rb <=> pcall.a = pcall.b)

\* the credentials hold something to inject
Usable(credentials) ==
    /\ credentials # PyNone
    /\ \E i \in 1..Len(credentials.items) : Truthy(credentials.items[i].v)

FirstUsable(credentials) ==
    LET i == CHOOSE i \in 1..Len(credentials.items) :
                 /\ Truthy(credentials.items[i].v)
                 /\ \A j \in 1..(i - 1) : ~Truthy(credentials.items[j].v)
    IN  credentials.items[i].v.v

AuthField(auth, k, default) ==
    IF auth # PyNone /\ k \in DOMAIN auth.v THEN auth.v[k] ELSE default

\* C17: for a tool that load_tools built from a catalog entry, injection follows
\* the entry's auth config: with type 'bearer' and usable credentials the request
\* carries 'Authorization: Bearer <token>', the token being the access_token
\* field or else the first non-empty field; with type 'api_key' the value is
\* placed under the configured name in the configured header or query parameter.
C17_InjectionFollowsEntryAuth ==
    pcall.pc = "done" /\ pcall.fn = "build_auth" /\ pcall.from_entry
    /\ Usable(pcall.credentials) /\ pcall.outcome.kind = "returned"
        => LET auth == pcall.auth
               type == AuthField(auth, "type", PyNone)
               got == pcall.outcome.value
               creds == pcall.credentials
               token == IF HasKey(creds, "access_token")
                           /\ Truthy(ValueOf(creds, "access_token"))
                        THEN ValueOf(creds, "access_token").v
                        ELSE FirstUsable(creds)
               name == AuthField(auth, "name", PyStr("Authorization")).v
           IN  /\ type = PyStr("bearer") =>
                      /\ "Authorization" \in DOMAIN got.headers
                      /\ got.headers["Authorization"] = <<"Bearer ", token>>
               /\ type = PyStr("api_key") =>
                      IF AuthField(auth, "in", PyStr("header")) = PyStr("query")
                      THEN name \in DOMAIN got.query
                      ELSE name \in DOMAIN got.headers

\* C18: injection never fails an execution by itself: for every auth config and
\* every credentials mapping build_auth returns, and what it returns is empty
\* when there is no usable credential material.
C18_InjectionNeverFails ==
    pcall.pc = "done" /\ pcall.fn = "build_auth"
        => /\ pcall.outcome.kind = "returned"
           /\ ~Usable(pcall.credentials) => pcall.outcome.value = NoAuth

(***************************************************************************)
(* The spec loader's cache.                                                *)
(***************************************************************************)
SpecEntry(at, doc) == PyDict([k \in {"at", "doc"} |-> IF k = "at" THEN at ELSE doc])

\* the GET of call t has just been answered with a document that load_spec returns
Fetched(t) ==
    /\ pcall[t].pc = "get" /\ pcall'[t].pc = "done"
    /\ pcall'[t].outcome.kind = "returned"
    /\ pcall'[t].outcome.value # PyNone

\* C21: load_spec(url) called less than cache_seconds after a successful fetch
\* of the same url returns the cached document without any network request;
\* called once the entry is at least cache_seconds old (or absent) it sends a
\* request and, on success, replaces that url's entry wholesale (document and
\* timestamp); entries of other urls are never touched.
C21_SpecCachePolicy ==
    [][ /\ \A t \in LoadTasks :
              pcall[t].pc = "idle" /\ pcall'[t].pc # "idle" =>
                  LET e == spec_cache[pcall'[t].url]
                  IN  IF e # PyNone /\ now - e.v["at"] < SpecCacheSeconds
                      THEN /\ pcall'[t].pc = "done"
                           /\ pcall'[t].requests = 0
                           /\ pcall'[t].outcome = Returned(e.v["doc"])
                      ELSE pcall'[t].pc = "get" /\ pcall'[t].requests = 1
        /\ \A t \in LoadTasks :
              Fetched(t) =>
                  spec_cache'[pcall[t].url] = SpecEntry(now, pcall'[t].outcome.value)
        /\ \A u \in DOMAIN Web :
              spec_cache'[u] # spec_cache[u] =>
                  \E t \in LoadTasks : Fetched(t) /\ pcall[t].url = u ]_vars

\* an expired entry has been replaced by a fetch while the other url's entry stood
C21_Witness ==
    \E t \in LoadTasks :
        /\ pcall[t].pc = "done" /\ pcall[t].had_entry /\ pcall[t].requests = 1
        /\ pcall[t].outcome.kind = "returned"
        /\ spec_cache[pcall[t].url] = SpecEntry(now, pcall[t].outcome.value)
        /\ \E u \in DOMAIN Web :
              /\ u # pcall[t].url
              /\ spec_cache[u] # PyNone
              /\ spec_cache[u].v["at"] < now

\* C22: a fetch that gets a non-success status returns not-found and leaves the
\* spec cache unchanged (no entry is created for the url, an expired entry keeps
\* its document and timestamp), and a successful fetch, later ones of the same
\* url included, is cached normally.
C22_FailedFetchLeavesCache ==
    [][ \A t \in LoadTasks :
            pcall[t].pc = "get" /\ pcall'[t].pc = "done" =>
                /\ pcall'[t].status \notin {0, 200} =>
                       /\ pcall'[t].outcome = Returned(PyNone)
                       /\ spec_cache' = spec_cache
                /\ pcall'[t].status = 200 /\ pcall'[t].outcome.kind = "returned" =>
                       /\ pcall'[t].outcome.value # PyNone
                       /\ spec_cache'[pcall[t].url] =
                              SpecEntry(now, pcall'[t].outcome.value) ]_vars

\* a fetch over an expired entry got a non-success status; the entry is still there
C22_Witness ==
    \E t \in LoadTasks :
        /\ pcall[t].pc = "done" /\ pcall[t].status \notin {0, 200}
        /\ pcall[t].had_entry
        /\ spec_cache[pcall[t].url] # PyNone
        /\ now - spec_cache[pcall[t].url].v["at"] >= SpecCacheSeconds

(***************************************************************************)
(* The request of the REST executor.                                       *)
(***************************************************************************)
\* the payload keys whose token occurs in the path template
PathKeys(path, payload) ==
    { k \in Keys(payload) : \E j \in 1..Len(path) : path[j] = Token(k) }

\* the path template with the value of every such key in the place of its token
Substituted(path, payload) ==
    [ j \in 1..Len(path) |->
        IF \E k \in Keys(payload) : path[j] = Token(k)
        THEN Str(ValueOf(payload, CHOOSE k \in Keys(payload) : path[j] = Token(k)))
        ELSE path[j] ]

BodyFields(request) ==
    IF request.form_data # PyNone THEN DOMAIN request.form_data.v
    ELSE IF request.body_data # PyNone /\ request.body_data.json.t = "dict"
    THEN DOMAIN request.body_data.json.v
    ELSE {}

\* C23: every payload key whose '{key}' token occurs in the path template is
\* substituted by its value in the built URL and is emitted neither as a query
\* parameter nor as a body field; for GET/DELETE every remaining scalar field of
\* the payload, and only those, appears as a query parameter.
C23_PathTemplating ==
    pcall.pc = "done" /\ pcall.fn = "rest_request" /\ pcall.outcome.kind = "returned"
        => LET op == pcall.operation
               payload == pcall.payload
               request == pcall.outcome.value
               path_keys == PathKeys(op.path, payload)
           IN  /\ Len(request.url) >= Len(op.path)
               /\ SubSeq(request.url, Len(request.url) - Len(op.path) + 1,
                         Len(request.url)) = Substituted(op.path, payload)
               /\ path_keys \cap DOMAIN request.query = {}
               /\ path_keys \cap BodyFields(request) = {}
               /\ op.method \in {"get", "delete"} =>
                      \A k \in Keys(payload) :
                          /\ k \in DOMAIN request.query
                               <=> k \notin path_keys /\ IsScalar(ValueOf(payload, k))
                          /\ k \in DOMAIN request.query
                               => request.query[k] = Str(ValueOf(payload, k))

(***************************************************************************)
(* The credential path of an execution.                                    *)
(***************************************************************************)
\* the execution resolves its credentials through _resolve_credentials_legacy
Legacy(t) ==
    /\ task[t].frame = "service"
    /\ task[t].credential_mode # PyNone
    /\ ~IsStr(task[t].credential_mode, "byo")
    /\ ~IsStr(task[t].credential_mode, "hosted")

\* C24: in legacy credential resolution every missing link is a hard failure: an
\* execution on the legacy path either ends in an error without the executor
\* being called, or calls the executor with credentials that are present;
\* legacy resolution never hands the executor absent (null) credentials.
C24_LegacyMissingLinkIsFailure ==
    \A t \in ServiceTasks :
        Legacy(t) =>
            /\ task[t].resolved => task[t].credentials # PyNone
            /\ task[t].pc = "done" /\ ~task[t].resolved =>
                   task[t].outcome.kind = "raised"

\* the mode the request asks for: BYO when it carries credentials, else the mode
\* named in its meta, else the declared mode of the tool
EffectiveMode(r) ==
    IF SuppliesCredentials(r) THEN PyStr("byo")
    ELSE IF "credential_mode" \in DOMAIN MetaOf(r) THEN MetaOf(r)["credential_mode"]
    ELSE r.tool.credential_mode

\* neither a BYO signal nor an explicit mode
NoSignal(r) == ~SuppliesCredentials(r) /\ "credential_mode" \notin DOMAIN MetaOf(r)

HasIdOrName(ref) == Truthy(ref.credential_id) \/ Truthy(ref.credential_name)

ByReference(ref) ==
    <<[e |-> "resolve_credential", args |-> <<ref.credential_id, ref.credential_name>>]>>

\* C25 as stated: BYO when the request carries credentials; otherwise the mode
\* named explicitly in the request meta; and when neither a BYO signal nor an
\* explicit mode is present, credentials are resolved through the tool's static
\* credential reference (by explicit id/name first) and not through the
\* tenant-scoped hosted resolution.
C25_LegacyWithoutSignal ==
    \A t \in ServiceTasks :
        InBody(t) =>
            LET r == task[t].req
            IN  /\ SuppliesCredentials(r) => task[t].credential_mode = PyStr("byo")
                /\ ~SuppliesCredentials(r) /\ ~NoSignal(r) =>
                       task[t].credential_mode = MetaOf(r)["credential_mode"]
                /\ NoSignal(r) =>
                       /\ Events(t, {"resolve_tool_credential"}) = <<>>
                       /\ HasIdOrName(r.tool.credential_ref) =>
                              Events(t, CredentialOps) = ByReference(r.tool.credential_ref)

\* C25 (amended): the effective mode is BYO when the request carries credentials,
\* otherwise the mode named in the request meta, otherwise the declared mode of
\* the tool.  Mode byo calls no resolution, mode hosted calls the tenant-scoped
\* resolution once, and any other mode takes the legacy path: never the
\* tenant-scoped resolution, and the static reference by explicit id/name first,
\* else by credential type.
C25_CredentialPath ==
    \A t \in ServiceTasks :
        InBody(t) =>
            LET r == task[t].req
                ref == r.tool.credential_ref
                mode == EffectiveMode(r)
                ev == Events(t, CredentialOps)
            IN  /\ task[t].credential_mode = mode
                /\ mode = PyStr("byo") => ev = <<>>
                /\ mode = PyStr("hosted") =>
                       Len(ev) = 1 /\ ev[1].e = "resolve_tool_credential"
                /\ mode \notin {PyStr("byo"), PyStr("hosted")} =>
                       /\ Events(t, {"resolve_tool_credential"}) = <<>>
                       /\ IF r.tool.credential_mode = PyStr("byo") THEN ev = <<>>
                          ELSE IF HasIdOrName(ref) THEN ev = ByReference(ref)
                          ELSE IF Truthy(ref.credential_type)
                          THEN ev # <<>> /\ ev[1].e = "get_credential_type_id"
                          ELSE ev = <<>>

\* a request with no signal for a tool whose declared mode is neither byo nor
\* hosted has been resolved by the name in its reference and carried out
C25_Witness ==
    \E t \in ServiceTasks :
        /\ task[t].pc = "done"
        /\ NoSignal(task[t].req)
        /\ Legacy(t)
        /\ Truthy(task[t].req.tool.credential_ref.credential_name)
        /\ task[t].resolved
        /\ Events(t, CredentialOps) = ByReference(task[t].req.tool.credential_ref)

(***************************************************************************)
(* The limiter across the entry points.                                    *)
(***************************************************************************)
\* the execution of t was started by an administrative execute action
StartedByAdmin(t) == task[t].own # PyNone

\* C26: the number of concurrently in-flight tool executions in the whole
\* process never exceeds the configured ceiling, whichever entry point started
\* them: executions started through the MCP tool handlers and through the
\* administrative execute actions all count against the same limit.
C26_ProcessWideCeiling ==
    LET in_flight == {t \in AllTasks : Holding(t)}
    IN  Cardinality({t \in in_flight : StartedByAdmin(t)})
            + Cardinality({t \in in_flight : ~StartedByAdmin(t)}) <= MaxConcurrency

(***************************************************************************)
(* Redaction.                                                              *)
(***************************************************************************)
RECURSIVE Emits(_)
\* the value shows a field with a sensitive name and a value other than the
\* redaction mark, at any depth, in dicts and in the items of lists
Emits(value) ==
    CASE value.t = "dict" ->
           \E key \in DOMAIN value.v :
               \/ _SENSITIVE_KEYS(key) /\ ~IsStr(value.v[key], Redacted.v)
               \/ Emits(value.v[key])
      [] value.t = "list" -> \E i \in 1..Len(value.items) : Emits(value.items[i])
      [] OTHER -> FALSE

\* C27: for every payload, the redacted copy that is logged replaces the value of
\* every field whose name contains token, secret, api_key (also api-key, apikey)
\* or password, case-insensitively, at every nesting depth of the payload, and
\* keeps the fields of the payload otherwise.
C27_RedactionAtEveryDepth ==
    pcall.pc = "done" /\ pcall.fn = "redact_payload"
        => /\ ~Emits(pcall.outcome.value)
           /\ DOMAIN pcall.outcome.value.v = DOMAIN pcall.payload.v

(***************************************************************************)
(* The tool store: ToolStore over the adapter_tools table of the database. *)
(* The table is the sequence of its rows and the value of its id sequence; *)
(* a row maps every column to its value.                                   *)
(***************************************************************************)
PyDatetime(n) == [t |-> "datetime", at |-> n]
ToolRecord(fields) == [t |-> "ToolRecord", fields |-> fields]

\* CREATE TABLE adapter_tools: the columns in their order
Columns ==
    << "id", "name", "description", "provider", "category", "adapter_type", "enabled",
       "mcp_server_url", "openapi_url", "base_url", "operation_ids", "auth_config",
       "tags", "credential_mode", "credential_id", "credential_name",
       "credential_environment", "org_id", "created_at", "updated_at" >>

\* the columns declared NOT NULL
NotNull ==
    { "name", "provider", "category", "adapter_type", "enabled", "credential_mode",
      "credential_environment", "created_at", "updated_at" }

\* the columns create_tool and update_tool write from the payload
WritableColumns == SubSeq(Columns, 2, 18)

\* the column list of the INSERT, and the %s of its VALUES clause
InsertColumns == Tail(Columns)
InsertPlaceholders == 18

\* the %s of the UPDATE: the SET clause and the WHERE clause
UpdatePlaceholders == 19

\* payload.get(key, default) of create_tool; the other keys are read as payload[key]
InsertDefaults ==
    [ description |-> PyStr(""), enabled |-> PyBool(TRUE), mcp_server_url |-> PyNone,
      openapi_url |-> PyNone, base_url |-> PyNone, operation_ids |-> PyList(<<>>),
      auth_config |-> PyDict(EmptyMap), tags |-> PyList(<<>>),
      credential_mode |-> PyStr("hosted"), credential_id |-> PyNone,
      credential_name |-> PyNone, credential_environment |-> PyStr("production"),
      org_id |-> PyNone ]

\* the parameter tuple of the INSERT
InsertParams(payload, at) ==
    [ i \in 1..Len(InsertColumns) |->
        LET c == InsertColumns[i]
        IN  IF c \in {"created_at", "updated_at"} THEN PyDatetime(at)
            ELSE IF c \in DOMAIN InsertDefaults THEN DictGet(payload, c, InsertDefaults[c])
            ELSE payload[c] ]

\* ToolStore._to_record
_to_record(row) ==
    ToolRecord(
      [ c \in SeqToSet(Columns) |->
          CASE c = "description" -> PyOr(row[c], PyStr(""))
            [] c = "enabled" -> PyBool(Truthy(row[c]))
            [] c \in {"operation_ids", "tags"} -> PyOr(row[c], PyList(<<>>))
            [] c = "auth_config" -> PyOr(row[c], PyDict(EmptyMap))
            [] c = "credential_mode" -> PyOr(row[c], PyStr("hosted"))
            [] c = "credential_environment" -> PyOr(row[c], PyStr("production"))
            [] c \in {"created_at", "updated_at"} -> PyStr(ToString(row[c].at))
            [] OTHER -> row[c] ])

\* ToolStore.get_tool
get_tool(st, tool_id) ==
    LET rows == SelectSeq(st.adapter_tools, LAMBDA r : r["id"].n = tool_id)
    IN  IF rows = <<>> THEN PyNone ELSE _to_record(rows[1])

\* ToolStore.list_tools over the rows of the table
list_tools_of(st, enabled_only) ==
    LET rows == SelectSeq(st.adapter_tools,
                          LAMBDA r : enabled_only => Truthy(r["enabled"]))
    IN  [i \in 1..Len(rows) |-> _to_record(rows[i])]

\* conn.execute(query, params): the statement runs only when every parameter has
\* its placeholder and no NOT NULL column is given NULL
ProgrammingError(placeholders, params) ==
    Raised("ProgrammingError",
           Msg("the query has " \o ToString(placeholders) \o " placeholders but "
               \o ToString(Len(params)) \o " parameters were passed"))

NotNullViolation == Raised("NotNullViolation", Msg("null value violates not-null constraint"))

\* ToolStore.create_tool: the table afterwards and what the call comes back with
create_tool(st, payload, at) ==
    LET params == InsertParams(payload, at)
    IN  IF Len(params) # InsertPlaceholders
        THEN [st |-> st, outcome |-> ProgrammingError(InsertPlaceholders, params)]
        ELSE IF \E i \in 1..Len(params) : InsertColumns[i] \in NotNull /\ params[i].t = "none"
        THEN [st |-> st, outcome |-> NotNullViolation]
        ELSE LET tool_id == st.id_seq + 1
                 row == [ c \in SeqToSet(Columns) |->
                            IF c = "id" THEN PyInt(tool_id)
                            ELSE params[CHOOSE i \in 1..Len(InsertColumns) :
                                            InsertColumns[i] = c] ]
                 after == [adapter_tools |-> Append(st.adapter_tools, row),
                           id_seq |-> tool_id]
                 tool == get_tool(after, tool_id)
             IN  [st |-> after,
                  outcome |-> IF ~Truthy(tool)
                              THEN Raised("ValueError", Msg("Failed to create tool"))
                              ELSE Returned(tool)]

\* the rows an UPDATE ... WHERE id = tool_id writes
Mut_UpdateWhere(r, tool_id) == TRUE
UpdateWhere(r, tool_id) == r["id"].n = tool_id

\* ToolStore.update_tool
update_tool(st, tool_id, payload, at) ==
    LET existing == get_tool(st, tool_id)
    IN  IF ~Truthy(existing)
        THEN [st |-> st, outcome |-> Raised("ValueError", Msg("Tool not found"))]
        ELSE
        LET updated == [ c \in SeqToSet(WritableColumns) |->
                           DictGet(payload, c, existing.fields[c]) ]
            params == [ i \in 1..(Len(WritableColumns) + 2) |->
                          IF i <= Len(WritableColumns) THEN updated[WritableColumns[i]]
                          ELSE IF i = Len(WritableColumns) + 1 THEN PyDatetime(at)
                          ELSE PyInt(tool_id) ]
        IN  IF Len(params) # UpdatePlaceholders
            THEN [st |-> st, outcome |-> ProgrammingError(UpdatePlaceholders, params)]
            ELSE IF \E c \in SeqToSet(WritableColumns) : c \in NotNull /\ updated[c].t = "none"
            THEN [st |-> st, outcome |-> NotNullViolation]
            ELSE LET after ==
                       [st EXCEPT !.adapter_tools =
                          [ i \in 1..Len(st.adapter_tools) |->
                              LET r == st.adapter_tools[i]
                              IN  IF ~UpdateWhere(r, tool_id) THEN r
                                  ELSE [ c \in SeqToSet(Columns) |->
                                           IF c \in SeqToSet(WritableColumns) THEN updated[c]
                                           ELSE IF c = "updated_at" THEN PyDatetime(at)
                                           ELSE r[c] ] ]]
                 IN  [st |-> after, outcome |-> Returned(get_tool(after, tool_id))]

\* ToolStore.delete_tool
delete_tool(st, tool_id) ==
    [st |-> [st EXCEPT !.adapter_tools =
                SelectSeq(st.adapter_tools, LAMBDA r : r["id"].n # tool_id)],
     outcome |-> Returned(PyNone)]

(***************************************************************************)
(* The bulk migration: scripts/migrate_tools_from_seed.py.                 *)
(***************************************************************************)
\* str.strip() on the characters of a string
Strip(s) ==
    LET idx == {i \in 1..Len(s) : s[i] # " "}
    IN  IF idx = {} THEN <<>>
        ELSE SubSeq(s, CHOOSE i \in idx : \A j \in idx : i <= j,
                       CHOOSE i \in idx : \A j \in idx : i >= j)

\* _build_payload (the seed items of the model carry no capabilities,
\* credentials_schema or logo)
_build_payload(item, default_credential_mode) ==
    LET given == PyOr(DictGet(item, "metadata", PyNone), PyDict(EmptyMap))
        metadata == [k \in DOMAIN given.v \cup {"source"} |->
                        IF k = "source" THEN PyStr("automatos_seed") ELSE given.v[k]]
        FromMeta(k) == DictGet(metadata, k, PyNone)
    IN  [ name |-> PyChars(Strip(DictGet(item, "name", PyChars(<<>>)).v)),
          description |-> PyOr(DictGet(item, "description", PyStr("")), PyStr("")),
          provider |-> DictGet(item, "provider", PyStr("unknown")),
          category |-> DictGet(item, "category", PyStr("other")),
          adapter_type |-> IF Truthy(DictGet(item, "mcp_server_url", PyNone))
                           THEN PyStr("mcp") ELSE PyStr("rest"),
          enabled |-> PyBool(IsStr(DictGet(item, "status", PyNone), "active")),
          mcp_server_url |-> DictGet(item, "mcp_server_url", PyNone),
          openapi_url |-> FromMeta("openapi_url"),
          base_url |-> FromMeta("base_url"),
          operation_ids |-> PyOr(FromMeta("operation_ids"), PyList(<<>>)),
          auth_config |-> PyOr(FromMeta("auth_config"), PyDict(EmptyMap)),
          tags |-> PyOr(DictGet(item, "tags", PyNone), PyList(<<>>)),
          metadata |-> PyDict(metadata),
          credential_mode |-> PyStr(default_credential_mode),
          credential_environment |-> PyStr("production") ]

\* if args.skip_existing and name in existing_names
SkipExisting(name, existing_names) == name \in existing_names

\* the loop of main over the seed items; an exception of create_tool ends the run
RECURSIVE ImportLoop(_, _, _)
ImportLoop(run, tools, mode) ==
    IF tools = <<>> THEN [run EXCEPT !.outcome = Returned(PyNone)]
    ELSE LET item == Head(tools)
             name == Strip(PyOr(DictGet(item, "name", PyNone), PyChars(<<>>)).v)
         IN  IF name = <<>> THEN ImportLoop(run, Tail(tools), mode)
             ELSE IF SkipExisting(name, run.existing_names)
             THEN ImportLoop([run EXCEPT !.skipped = @ + 1], Tail(tools), mode)
             ELSE LET res == create_tool(run.st, _build_payload(item, mode), now)
                      called == [run EXCEPT !.calls = Append(@, name)]
                  IN  IF res.outcome.kind = "raised"
                      THEN [called EXCEPT !.outcome = res.outcome]
                      ELSE ImportLoop([called EXCEPT !.st = res.st,
                                                     !.created = @ + 1,
                                                     !.existing_names = @ \cup {name}],
                                      Tail(tools), mode)

\* main from the opening of the store on (lines 97-124), offset and limit left at 0
main(st, seed, mode) ==
    LET listed == list_tools_of(st, FALSE)
    IN  ImportLoop([ st |-> st,
                     existing_names |-> {listed[i].fields["name"].v : i \in 1..Len(listed)},
                     created |-> 0, skipped |-> 0, calls |-> <<>>, outcome |-> PyNone ],
                   seed, mode)

(***************************************************************************)
(* The store and the migration called directly on a database.              *)
(***************************************************************************)
MaxSeed == 2       \* the longest seed list

Name_a == <<"a">>
Name_b == <<"b">>
Name_c == <<"c">>

\* a row as an earlier writer of the table left it
StoredRow(tool_id, name) ==
    [ c \in SeqToSet(Columns) |->
        CASE c = "id" -> PyInt(tool_id)
          [] c = "name" -> PyChars(name)
          [] c \in {"provider", "category"} -> PyStr("p")
          [] c = "adapter_type" -> PyStr("rest")
          [] c = "enabled" -> PyBool(TRUE)
          [] c = "credential_mode" -> PyStr("hosted")
          [] c = "credential_environment" -> PyStr("production")
          [] c \in {"created_at", "updated_at"} -> PyDatetime(0)
          [] OTHER -> PyNone ]

\* the tables the database can hold when the store is opened
StoredTables ==
    { [adapter_tools |-> <<>>, id_seq |-> 0],
      [adapter_tools |-> <<StoredRow(1, Name_a)>>, id_seq |-> 1],
      [adapter_tools |-> <<StoredRow(1, Name_a), StoredRow(2, Name_b)>>, id_seq |-> 2] }

StoreIds == {1, 2, 3}

\* ToolCreate(**payload).model_dump(): every field, the defaults filled in
ToolCreate(body) ==
    body @@ InsertDefaults @@ [metadata |-> PyDict(EmptyMap)]

CreateBodies ==
    { [name |-> PyChars(n), provider |-> PyStr("p"), category |-> PyStr("c"),
       adapter_type |-> PyStr("rest")] : n \in {Name_a, Name_c} }
    \cup
    { [name |-> PyChars(Name_c), provider |-> PyStr("p"), category |-> PyStr("c"),
       adapter_type |-> PyStr("mcp"), mcp_server_url |-> PyStr("https://mcp"),
       tags |-> PyList(<<"x">>), metadata |-> PyDict([owner |-> PyStr("ops")])] }

\* ToolUpdate(**payload).model_dump(exclude_unset=True): the fields that were sent
UpdatePayloads ==
    { [name |-> PyChars(n)] : n \in {Name_a, Name_c} }
    \cup { [name |-> PyChars(Name_a), auth_config |-> PyNone] }
    \cup { [name |-> PyNone] }

SeedItems ==
    { [name |-> PyChars(n), status |-> PyStr("active")] :
        n \in {Name_a, <<" ", "a">>, Name_c, <<>>} }

Seeds == UNION { [1..n -> SeedItems] : n \in 0..MaxSeed }

\* what the direct calls leave in pcall: the call, the table before and after
StoreCall(fn, args, before, res) ==
    [fn |-> fn, args |-> args, before |-> before, st |-> res.st,
     outcome |-> res.outcome, at |-> now]

CreateTool ==
    \E body \in CreateBodies :
        LET payload == ToolCreate(body)
        IN  /\ pcall' = StoreCall("create_tool", [payload |-> payload], pcall.st,
                                  create_tool(pcall.st, payload, now))
            /\ UNCHANGED <<svars, rvars>>

GetTool ==
    \E tool_id \in StoreIds :
        /\ pcall' = StoreCall("get_tool", [tool_id |-> tool_id], pcall.st,
                              [st |-> pcall.st,
                               outcome |-> Returned(get_tool(pcall.st, tool_id))])
        /\ UNCHANGED <<svars, rvars>>

UpdateTool ==
    \E tool_id \in StoreIds : \E payload \in UpdatePayloads :
        /\ pcall' = StoreCall("update_tool", [tool_id |-> tool_id, payload |-> payload],
                              pcall.st, update_tool(pcall.st, tool_id, payload, now))
        /\ UNCHANGED <<svars, rvars>>

DeleteTool ==
    \E tool_id \in StoreIds :
        /\ pcall' = StoreCall("delete_tool", [tool_id |-> tool_id], pcall.st,
                              delete_tool(pcall.st, tool_id))
        /\ UNCHANGED <<svars, rvars>>

\* one run of the migration script; again: the run before it was over the same seed
Migrate ==
    \E seed \in Seeds :
        LET mode == "hosted"      \* DEFAULT_CREDENTIAL_MODE left unset
            run == main(pcall.st, seed, mode)
            again == pcall.fn = "main" /\ pcall.args.seed = seed
        IN  /\ pcall' = StoreCall("main",
                                  [seed |-> seed, mode |-> mode, again |-> again,
                                   created |-> run.created, skipped |-> run.skipped,
                                   calls |-> run.calls],
                                  pcall.st, run)
            /\ UNCHANGED <<svars, rvars>>

InitStore ==
    /\ \E st \in StoredTables :
          pcall = [fn |-> "", args |-> EmptyMap, before |-> st, st |-> st,
                   outcome |-> PyNone, at |-> StartTime]
    /\ RegistryAtStart
    /\ catalog = [i \in RowIds |-> "enabled"]
    /\ settings = [tool_allowlist |-> {}, operation_allowlist |-> {}]
    /\ task = [t \in AllTasks |-> IdleTask]
    /\ semaphore_value = MaxConcurrency
    /\ waiters = <<>>
    /\ max_retries = [rest |-> RestDefaultRetries, mcp |-> McpDefaultRetries]

NextStore == CreateTool \/ GetTool \/ UpdateTool \/ DeleteTool \/ Tick

SpecStore == InitStore /\ [][NextStore]_vars

\* the migration run on databases the admin API has deleted rows of
NextMigrate == Migrate \/ DeleteTool

SpecMigrate == InitStore /\ [][NextMigrate]_vars

(***************************************************************************)
(* The catalog store: round trip, names, migration.                        *)
(***************************************************************************)
\* equality of two Python values
PyEq(a, b) ==
    /\ a.t = b.t
    /\ CASE a.t \in {"str", "chars", "dict"} -> a.v = b.v
         [] a.t = "int" -> a.n = b.n
         [] a.t = "bool" -> a.b = b.b
         [] a.t = "list" -> a.items = b.items
         [] OTHER -> TRUE

RowOf(st, tool_id) ==
    LET rows == SelectSeq(st.adapter_tools, LAMBDA r : r["id"].n = tool_id)
    IN  rows[1]

\* C28: a create_tool call returns a record, and fetching the returned id gives a
\* record that equals the create payload on every field of the payload (name,
\* description, provider, category, adapter_type, enabled, the three urls,
\* operation_ids, auth_config, tags, metadata, the credential fields, org_id), with
\* created_at set and updated_at later than or equal to it.
C28_CreateFetchRoundTrip ==
    pcall.fn = "create_tool"
        => /\ pcall.outcome.kind = "returned"
           /\ LET payload == pcall.args.payload
                  tool_id == pcall.outcome.value.fields["id"].n
                  fetched == get_tool(pcall.st, tool_id)
              IN  /\ Truthy(fetched)
                  /\ \A k \in DOMAIN payload :
                        /\ k \in DOMAIN fetched.fields
                        /\ PyEq(fetched.fields[k], payload[k])
                  /\ RowOf(pcall.st, tool_id)["created_at"].t = "datetime"
                  /\ RowOf(pcall.st, tool_id)["updated_at"].at
                        >= RowOf(pcall.st, tool_id)["created_at"].at

StoredNames(st) == [i \in 1..Len(st.adapter_tools) |-> st.adapter_tools[i]["name"].v]
StoredIds(st) == [i \in 1..Len(st.adapter_tools) |-> st.adapter_tools[i]["id"].n]
NoRepeat(s) == \A i, j \in 1..Len(s) : i # j => s[i] # s[j]

\* C29 as stated: whatever create_tool, update_tool and delete_tool calls were
\* made, no two records of the catalog have the same name.
C29_NameIsUniqueKey == NoRepeat(StoredNames(pcall.st))

\* the call that was just made passed a name that another record already held
PassedHeldName ==
    /\ pcall'.fn \in {"create_tool", "update_tool"}
    /\ "name" \in DOMAIN pcall'.args.payload
    /\ \E i \in 1..Len(pcall.st.adapter_tools) :
          /\ PyEq(pcall.st.adapter_tools[i]["name"], pcall'.args.payload["name"])
          /\ pcall'.fn = "update_tool" => StoredIds(pcall.st)[i] # pcall'.args.tool_id

\* C29 (amended): the id is the key the store keeps unique, and the name is unique
\* by convention: records come to share a name only through a create_tool or an
\* update_tool call that passes a name another record already holds.
C29_UniqueByConvention ==
    /\ [](NoRepeat(StoredIds(pcall.st)))
    /\ [][NoRepeat(StoredNames(pcall.st)) /\ ~NoRepeat(StoredNames(pcall'.st))
             => PassedHeldName]_vars

\* an update has given a record a name no other record held, beside a second record
C29_Witness ==
    /\ pcall.fn = "update_tool" /\ pcall.outcome.kind = "returned"
    /\ "name" \in DOMAIN pcall.args.payload
    /\ ~PyEq(RowOf(pcall.before, pcall.args.tool_id)["name"], pcall.args.payload["name"])
    /\ Len(pcall.st.adapter_tools) = 2
    /\ NoRepeat(StoredNames(pcall.st))

\* the records a call added, and the names the seed asks for
AddedNames(call) ==
    SubSeq(StoredNames(call.st), Len(call.before.adapter_tools) + 1, Len(call.st.adapter_tools))
SeedNames(seed) == {Strip(seed[i]["name"].v) : i \in 1..Len(seed)} \ {<<>>}

StaticToken == <<"s3cr3t">>
SignedToken == <<"jwt.good">>      \* the one token the key set verifies
ForgedToken == <<"jwt.forged">>

\* Settings: adapter_auth_token and clerk_jwks_url, each set or left at None
AuthSettings ==
    [adapter_auth_token : {PyNone, PyChars(StaticToken)},
     clerk_jwks_url : {PyNone, PyStr("https://clerk/jwks")}]

HealthPath == <<"/health">>
HttpPaths ==
    { HealthPath, <<"/admin", "/tools">>, <<"/admin", "/tools", "/1">>, <<"/mcp">>,
      <<"/admin", "/health">> }

AuthorizationHeaders ==
    { <<>>, <<"Bearer", " ", "s3cr3t">>, <<"s3cr3t">>, <<"Bearer", " ", "jwt.good">>,
      <<"Bearer", " ", "jwt.forged">>, <<"Bearer">> }

\* a request, and whether the key set can be fetched when it is looked at
HttpRequests ==
    [method : {"GET", "POST", "OPTIONS"}, path : HttpPaths,
     authorization : AuthorizationHeaders, jwks_up : BOOLEAN]

\* auth_header.replace("Bearer", "").strip()
BearerToken(auth_header) ==
    Strip(SelectSeq(auth_header, LAMBDA piece : piece # "Bearer"))

\* request.url.path.endswith("/health")
EndsWithHealth(path) == path # <<>> /\ path[Len(path)] = "/health"

\* ClerkJwtVerifier.verify: the context of the token, or the exception raised
verify(token, jwks_up) ==
    IF ~jwks_up THEN Raised("HTTPError", Msg("key set not fetched"))
    ELSE IF token = SignedToken
    THEN Returned([subject |-> "user", org_id |-> PyStr("org")])
    ELSE Raised("InvalidTokenError", Msg("token rejected"))

Unauthorized == [next |-> FALSE, auth |-> PyNone, status_code |-> 401]
CallNext(auth) == [next |-> TRUE, auth |-> auth, status_code |-> 0]

\* if not cfg.adapter_auth_token and not clerk_verifier
AuthDisabled(cfg) ==
    ~Truthy(cfg.adapter_auth_token) /\ ~Truthy(cfg.clerk_jwks_url)

\* auth_middleware: the request goes on with request.state.auth, or is answered 401
auth_middleware(cfg, request) ==
    LET token == BearerToken(request.authorization)
    IN  IF request.method = "OPTIONS" THEN CallNext(PyNone)
        ELSE IF EndsWithHealth(request.path) THEN CallNext(PyNone)
        ELSE IF AuthDisabled(cfg) THEN CallNext(PyDict([type |-> PyStr("anonymous")]))
        ELSE IF Truthy(cfg.adapter_auth_token)
                /\ token = cfg.adapter_auth_token.v
        THEN CallNext(PyDict([type |-> PyStr("service")]))
        ELSE IF Truthy(cfg.clerk_jwks_url) /\ token # <<>>
                /\ verify(token, request.jwks_up).kind = "returned"
        THEN CallNext(PyDict([type |-> PyStr("clerk")]))
        ELSE Unauthorized

\* the routes of the application: the handler a path and method come to, "" when
\* the router answers by itself (404, 405); the transport's endpoint is /mcp
Route(request) ==
    CASE request.path = HealthPath /\ request.method = "GET" -> "healthcheck"
      [] request.path = <<"/admin", "/tools">> /\ request.method = "GET" -> "list_tools"
      [] request.path = <<"/admin", "/tools">> /\ request.method = "POST" -> "create_tool"
      [] request.path = <<"/admin", "/tools", "/1">> /\ request.method = "GET" -> "get_tool"
      [] request.path = <<"/mcp">> /\ request.method \in {"GET", "POST"} -> "mcp"
      [] OTHER -> ""

AdminHandlers == {"list_tools", "create_tool", "get_tool"}

\* _require_auth: the handler goes on, or HTTPException(401)
_require_auth(auth) == Truthy(auth)

\* the request through the middleware, the router and the handler's own check:
\* the handler whose body runs, and the status when none does
Serve(cfg, request) ==
    LET passed == auth_middleware(cfg, request)
        handler == Route(request)
    IN  IF ~passed.next THEN [handler |-> "", status_code |-> 401]
        ELSE IF handler = "" THEN [handler |-> "", status_code |-> 404]
        ELSE IF handler \in AdminHandlers /\ ~_require_auth(passed.auth)
        THEN [handler |-> "", status_code |-> 401]
        ELSE [handler |-> handler, status_code |-> 200]

ServeRequest ==
    /\ pcall.pc = "ready" /\ pcall.fn = "auth_middleware"
    /\ pcall' = [pcall EXCEPT !.pc = "done",
                              !.outcome = Serve(pcall.settings, pcall.request)]
    /\ UNCHANGED <<svars, rvars>>

InitAuth ==
    /\ pcall \in [pc : {"ready"}, fn : {"auth_middleware"}, settings : AuthSettings,
                  request : HttpRequests, outcome : {[handler |-> "", status_code |-> 0]}]
    /\ RegistryAtStart
    /\ catalog = [i \in RowIds |-> "enabled"]
    /\ settings = [tool_allowlist |-> {}, operation_allowlist |-> {}]
    /\ task = [t \in AllTasks |-> IdleTask]
    /\ semaphore_value = MaxConcurrency
    /\ waiters = <<>>
    /\ max_retries = [rest |-> RestDefaultRetries, mcp |-> McpDefaultRetries]

NextAuth == ServeRequest

SpecAuth == InitAuth /\ [][NextAuth]_vars

\* the request carries the configured static token, or a token the key set verifies
Authenticated(cfg, request) ==
    LET token == BearerToken(request.authorization)
    IN  \/ Truthy(cfg.adapter_auth_token) /\ token = cfg.adapter_auth_token.v
        \/ Truthy(cfg.clerk_jwks_url) /\ token = SignedToken

\* C31: under every setting of the static token and the key-set url, a request that
\* carries neither the static token nor a valid signed token comes to no handler
\* except the health check, and is answered 401 unless its path is the health-check
\* path.
C31_UnauthenticatedRejected ==
    pcall.pc = "done" /\ pcall.fn = "auth_middleware"
    /\ ~Authenticated(pcall.settings, pcall.request)
        => /\ pcall.outcome.handler \in {"", "healthcheck"}
           /\ pcall.request.path # HealthPath => pcall.outcome.status_code = 401

\* C35: an execution whose effective mode is hosted and whose meta carries no
\* tenant_id (every call through the MCP tool handler, which passes no meta, for a
\* tool declared hosted) never calls the upstream tool-credential resolution, and
\* it ends in a failure.
C35_HostedRequiresTenant ==
    \A t \in AllTasks :
        LET r == task[t].req
        IN  (InBody(t) /\ EffectiveHosted(r) /\ "tenant_id" \notin DOMAIN MetaOf(r)) =>
                /\ Events(t, {"resolve_tool_credential"}) = <<>>
                /\ task[t].pc = "done" => ~IsResultEnvelope(task[t].outcome)

(***************************************************************************)
(* The REST executor with its HTTP responses: what RestExecutor.execute    *)
(* makes of the response of one attempt (executors.py:143-152).            *)
(***************************************************************************)
NotOkBody == PyDict([ok |-> PyBool(FALSE), error |-> PyStr("channel_not_found")])
OkBody == PyDict([ok |-> PyBool(TRUE)])

\* what client.request comes back with; content PyNone is the empty body
HttpResponses ==
    [kind : {"response"}, status_code : {200, 204},
     content : {PyNone, NotOkBody, OkBody, PyStr("<html>")}]
    \cup [kind : {"response"}, status_code : {404, 500}, content : {NotOkBody}]
    \cup {[kind |-> "error"]}

IsSuccessStatus(response) == response.status_code \in 200..299

Mut_rest_attempt(response) ==
    IF response.kind = "error" THEN [ok |-> FALSE, error |-> "timeout", response |-> response]
    ELSE IF ~IsSuccessStatus(response)
    THEN [ok |-> FALSE, error |-> "HTTP " \o ToString(response.status_code),
          response |-> response]
    ELSE IF ~Truthy(response.content)
    THEN [ok |-> TRUE, result |-> PyDict([status |-> PyStr("ok")]), response |-> response]
    ELSE IF response.content.t # "dict" \/ response.content = NotOkBody
    THEN [ok |-> FALSE, error |-> "JSONDecodeError", response |-> response]
    ELSE [ok |-> TRUE, result |-> response.content, response |-> response]

\* one pass of the try block: raise_for_status, response.json() or the canned
\* {"status": "ok"}; a body with ok = false is logged and returned like any other
rest_attempt(response) ==
    IF response.kind = "error" THEN [ok |-> FALSE, error |-> "timeout", response |-> response]
    ELSE IF ~IsSuccessStatus(response)
    THEN [ok |-> FALSE, error |-> "HTTP " \o ToString(response.status_code),
          response |-> response]
    ELSE IF ~Truthy(response.content)
    THEN [ok |-> TRUE, result |-> PyDict([status |-> PyStr("ok")]), response |-> response]
    ELSE IF response.content.t # "dict"
    THEN [ok |-> FALSE, error |-> "JSONDecodeError", response |-> response]
    ELSE [ok |-> TRUE, result |-> response.content, response |-> response]

\* calls of REST tools with the caller's own token
RestRequests ==
    [ tool : [ tool_name : ToolNames,
               descriptor : { d \in Descriptors : d.adapter_type = "rest" /\ d.rest_operation },
               credential_mode : {PyStr("byo"), PyStr("hosted")},
               credential_ref : { c \in CredentialRefs : ~Truthy(c.credential_name)
                                                         /\ ~Truthy(c.credential_type) } ],
      payload : { p \in Payloads : "credentials" \notin DOMAIN p.v
                                   /\ "token" \in DOMAIN p.v /\ Truthy(p.v["token"]) },
      meta : {PyNone} ]

CallRest(t) == task[t].pc = "idle" /\ \E r \in RestRequests : ExecuteTool(t, r)

\* the request of the current attempt is answered
RestResponds(t, response) ==
    /\ task[t].kind = "rest"
    /\ AttemptCompletes(t, rest_attempt(response))

NextRest ==
    \E t \in ServiceTasks :
        \/ CallRest(t)
        \/ \E response \in HttpResponses : RestResponds(t, response)
        \/ SleepDone(t)
        \/ Reset(t)

SpecRest == InitService /\ [][NextRest]_vars

Answered(t) == "response" \in DOMAIN task[t].last
NotOkAnswer(t) ==
    /\ Answered(t) /\ task[t].last.response.kind = "response"
    /\ IsSuccessStatus(task[t].last.response)
    /\ task[t].last.response.content = NotOkBody
EmptyAnswer(t) ==
    /\ Answered(t) /\ task[t].last.response.kind = "response"
    /\ IsSuccessStatus(task[t].last.response)
    /\ task[t].last.response.content = PyNone

\* C36: when an attempt of a REST execution is answered 2xx with a body carrying
\* ok = false, the call ends with that attempt and returns the body in a result
\* envelope: no sleep, no further request, no error envelope; answered 2xx with an
\* empty body it returns the result {status: ok}.
C36_NotOkIsReturned ==
    \A t \in AllTasks :
        /\ NotOkAnswer(t) =>
              /\ task[t].pc = "done"
              /\ task[t].outcome = Returned(_format_result(NotOkBody))
              /\ Len(Events(t, {"request"})) = task[t].attempt
        /\ EmptyAnswer(t) =>
              /\ task[t].pc = "done"
              /\ task[t].outcome = Returned(_format_result(PyDict([status |-> PyStr("ok")])))

\* a first attempt failed, the second was answered 200 with ok = false
C36_Witness ==
    \E t \in AllTasks :
        /\ NotOkAnswer(t) /\ task[t].last.response.status_code = 200
        /\ task[t].attempt = 2 /\ Len(Events(t, {"sleep"})) = 1
        /\ IsResultEnvelope(task[t].outcome)

(***************************************************************************)
(* load_tools over one catalog entry of any shape: the kind, the endpoint  *)
(* url and the method names vary; the documents are in the loader's cache. *)
(***************************************************************************)
EntryShapes ==
    { [Rows[2] EXCEPT !.adapter_type = k, !.mcp_server_url = u, !.operation_ids = ops] :
        k \in {"mcp", "grpc"},
        u \in {PyNone, PyChars(<<>>), PyChars(Chars_http \o <<":", "g", "h">>),
               PyChars(<<"w", "s", ":", "g", "h">>)},
        ops \in {<<>>, <<Chars_ls>>, <<Chars_ls, Chars_post>>} }
    \cup { [Rows[i] EXCEPT !.mcp_server_url = u] :
             i \in {1, 3}, u \in {PyNone, PyChars(Chars_http \o <<":", "g", "h">>)} }

\* the loop of load_tools over the entries the store listed, then the allow-list
\* filter: the list that is cached and returned
LoadEntries(entries) ==
    BuildLoop([ ltask |-> [x \in {1} |-> [IdleLoad EXCEPT !.mcp_tools = entries, !.i = 1]],
                cache |-> <<>>,
                timestamp |-> 0,
                specs |-> [u \in DOMAIN Web |->
                              PyDict([k \in {"at", "doc"} |-> IF k = "at" THEN now ELSE Web[u]])],
                built |-> PyNone ], 1).cache

LoadEntry ==
    /\ pcall.pc = "ready" /\ pcall.fn = "load_tools"
    /\ pcall' = [pcall EXCEPT !.pc = "done", !.outcome = LoadEntries(<<pcall.entry>>)]
    /\ UNCHANGED <<svars, rvars>>

\* catalogs of two enabled records with different names
NamedEntries ==
    {Rows[1], Rows[3]}
    \cup { [Rows[2] EXCEPT !.name = n] :
             n \in {Chars_gh_hub, <<"g", "h">>, <<"g", "h", "_", "h", "u", "b">>} }

Catalogs ==
    { c \in NamedEntries \X NamedEntries : c[1].name # c[2].name }

InitShapes ==
    /\ pcall \in [pc : {"ready"}, fn : {"load_tools"}, entry : EntryShapes, outcome : {<<>>}]
                 \cup [pc : {"ready"}, fn : {"provider_tools"}, entries : Catalogs,
                       outcome : {<<>>}]
    /\ RegistryAtStart
    /\ catalog = [i \in RowIds |-> "enabled"]
    /\ settings \in BuildSettings
    /\ task = [t \in AllTasks |-> IdleTask]
    /\ semaphore_value = MaxConcurrency
    /\ waiters = <<>>
    /\ max_retries = [rest |-> RestDefaultRetries, mcp |-> McpDefaultRetries]

\* the registry's list for a catalog, and the tools the admin actions take for each
\* of its records
ReverseMap ==
    /\ pcall.pc = "ready" /\ pcall.fn = "provider_tools"
    /\ LET tools == LoadEntries(pcall.entries)
       IN  pcall' = [pcall EXCEPT
                        !.pc = "done",
                        !.outcome = [i \in 1..Len(pcall.entries) |->
                                        provider_tools_of(tools, pcall.entries[i])]]
    /\ UNCHANGED <<svars, rvars>>

NextShapes == LoadEntry \/ ReverseMap

SpecShapes == InitShapes /\ [][NextShapes]_vars

MessageTools(tools) == SelectSeq(tools, LAMBDA x : x.descriptor.mcp_operation)
MethodsOf(entry) ==
    IF entry.operation_ids = <<>> THEN <<Chars_call>> ELSE entry.operation_ids

\* C33: the entry yields message tools only if its kind is mcp and it has an
\* endpoint url; a message entry with an endpoint url yields exactly one tool per
\* configured method name, a single 'call' tool when none is configured (no
\* allow-list being set); an entry of a kind that is neither rest nor mcp, and a
\* message entry without endpoint url, yield no tool.
C33_MessageToolsOnlyForMessageKind ==
    pcall.pc = "done" /\ pcall.fn = "load_tools"
        => LET entry == pcall.entry
               tools == pcall.outcome
               has_url == Truthy(entry.mcp_server_url)
           IN  /\ MessageTools(tools) # <<>> => entry.adapter_type = "mcp" /\ has_url
               /\ (entry.adapter_type = "mcp" /\ has_url /\ settings.tool_allowlist = {})
                     => /\ Len(tools) = Len(MethodsOf(entry))
                        /\ \A i \in 1..Len(tools) :
                              /\ tools[i].descriptor.mcp_operation
                              /\ tools[i].operation.method = MethodsOf(entry)[i]
               /\ (entry.adapter_type \notin {"rest", "mcp"}
                   \/ (entry.adapter_type = "mcp" /\ ~has_url)) => tools = <<>>

\* execute_tool at its dispatch (service.py:96-106) for a tool of the registry
Dispatched(x) ==
    Dispatch([Cur EXCEPT !.task[1] =
                 [IdleTask EXCEPT !.frame = "service", !.pc = "body",
                                  !.req = [tool |-> x, payload |-> PyDict(EmptyMap),
                                           meta |-> PyNone],
                                  !.payload = PyDict(EmptyMap)]], 1, PyNone).task[1]

\* C34: every tool of a load_tools result carries exactly one execution
\* descriptor, the REST one when its adapter type is rest and the message one when
\* it is mcp, and execute_tool dispatches it to the executor of that type instead
\* of answering 'Unsupported tool configuration'.
C34_OneMatchingDescriptor ==
    pcall.pc = "done" /\ pcall.fn = "load_tools"
        => \A i \in 1..Len(pcall.outcome) :
              LET x == pcall.outcome[i]
              IN  /\ x.descriptor.adapter_type \in {"rest", "mcp"}
                  /\ x.descriptor.rest_operation <=> x.descriptor.adapter_type = "rest"
                  /\ x.descriptor.mcp_operation <=> x.descriptor.adapter_type = "mcp"
                  /\ Dispatched(x).pc = "attempt"
                  /\ Dispatched(x).kind = x.descriptor.adapter_type

\* a result of two message tools, built from an entry whose own kind is not mcp
C34_Witness ==
    /\ pcall.pc = "done" /\ pcall.fn = "load_tools"
    /\ Len(pcall.outcome) = 2
    /\ pcall.entry.adapter_type = "grpc"
    /\ pcall.outcome[1].descriptor.adapter_type = "mcp"

\* C32: for every record of the catalog, the tools the admin execute actions take
\* for it (those whose lower-cased name starts with 'mcp_' + record name + '_') are
\* exactly the tools the registry built from that record: none of its tools is
\* missed and none built from another record is taken.
C32_PrefixReverseMaps ==
    pcall.pc = "done" /\ pcall.fn = "provider_tools"
        => \A i \in 1..Len(pcall.entries) :
              pcall.outcome[i] = LoadEntries(<<pcall.entries[i]>>)

\* a call of load_tools whose rebuild ended with an exception
Aborted(t) == ltask[t].pc = "done" /\ ltask[t].outcome.kind = "raised"

ServerCaller == 1

ServerStarting ==
    [ pc |-> "starting",       \* "serving" once build_server has returned
      registered |-> {},       \* the names given to mcp.tool
      changed_at |-> 0,        \* the time of the latest change of the catalog
      called |-> <<>>,         \* the name of the latest tool call
      found |-> FALSE ]        \* whether that call reached a handler

ToolNamesIn(tools) == {x.tool_name : x \in SeqToSet(tools)}

\* every name a catalog of the modelled rows can give
CallableNames == ToolNamesIn(LoadEntries([i \in 1..Cardinality(RowIds) |-> Row(i, 0)]))

\* tools = await registry.load_tools() (server.py:39)
ServerLoad == pcall.pc = "starting" /\ LoadTools(ServerCaller)

ServerFetch ==
    /\ pcall.pc = "starting"
    /\ \E answer \in ConcFetchAnswers : FetchReturns(ServerCaller, answer)

\* the for loop of build_server (server.py:40-43)
RegisterTools ==
    /\ pcall.pc = "starting"
    /\ ltask[ServerCaller].pc = "done"
    /\ ltask[ServerCaller].outcome.kind = "returned"
    /\ pcall' = [pcall EXCEPT !.pc = "serving",
                              !.registered = ToolNamesIn(ltask[ServerCaller].outcome.value)]
    /\ ltask' = [ltask EXCEPT ![ServerCaller] = IdleLoad]
    /\ UNCHANGED <<now, catalog, row_rev, settings, reg_cache, reg_cache_timestamp,
                   spec_cache, last_build, svars>>

\* a tools/call request over the MCP transport: it reaches the handler registered
\* under the name, if there is one
CallTool(name) ==
    /\ pcall.pc = "serving"
    /\ pcall' = [pcall EXCEPT !.called = name, !.found = name \in pcall.registered]
    /\ UNCHANGED <<svars, rvars>>

\* the admin API enables or disables an entry of the catalog
ServerSetRow(i, status) ==
    /\ catalog[i] # status
    /\ catalog' = [catalog EXCEPT ![i] = status]
    /\ pcall' = [pcall EXCEPT !.changed_at = now]
    /\ UNCHANGED <<now, row_rev, settings, reg_cache, reg_cache_timestamp, spec_cache,
                   ltask, last_build, svars>>

InitServer ==
    /\ RegistryAtStart
    /\ catalog \in [RowIds -> {"enabled", "disabled"}]
    /\ settings = [tool_allowlist |-> {}, operation_allowlist |-> {}]
    /\ task = [t \in AllTasks |-> IdleTask]
    /\ semaphore_value = MaxConcurrency
    /\ waiters = <<>>
    /\ max_retries = [rest |-> RestDefaultRetries, mcp |-> McpDefaultRetries]
    /\ pcall = ServerStarting

NextServer ==
    \/ ServerLoad
    \/ ServerFetch
    \/ RegisterTools
    \/ \E name \in CallableNames : CallTool(name)
    \/ \E i \in RowIds : \E status \in {"enabled", "disabled"} : ServerSetRow(i, status)
    \/ Tick

SpecServer == InitServer /\ [][NextServer]_vars

\* C37: once the server runs and one registry cache interval has passed since the
\* latest change of the catalog, the tools that can be called over the MCP transport
\* are exactly the tools of the enabled entries.
C37_CallableFollowsCatalog ==
    pcall.pc = "serving" /\ now - pcall.changed_at >= CacheSeconds
        => /\ pcall.registered = ToolNamesIn(LoadEntries(list_tools(catalog)))
           /\ pcall.called # <<>> /\ pcall.called \in pcall.registered => pcall.found

\* C39: when the injector places the credential in a query parameter, the request
\* carries the injected value under that parameter name, whatever the HTTP method
\* and whatever fields the payload has.
C39_InjectedQueryNotShadowed ==
    /\ pcall.pc = "done" /\ pcall.fn = "rest_request"
    /\ pcall.outcome.kind = "returned"
    => LET auth == build_auth(pcall.metadata, pcall.credentials)
       IN  auth.kind = "returned"
           => \A k \in DOMAIN auth.value.query :
                 /\ k \in DOMAIN pcall.outcome.value.query
                 /\ pcall.outcome.value.query[k] = auth.value.query[k]

(***************************************************************************)
(* Progress of execute_tool: three callers of one service under a fair     *)
(* event loop, every awaited network call completing.                      *)
(***************************************************************************)
\* a REST tool and a message tool in hosted mode, called without credentials
LiveRequests ==
    [ tool : [ tool_name : {Name_mcp_gh_ls},
               descriptor : { d \in Descriptors :
                                 \/ d.adapter_type = "rest" /\ d.rest_operation
                                 \/ d.adapter_type = "mcp" /\ d.mcp_operation },
               credential_mode : {PyStr("hosted")},
               credential_ref : { c \in CredentialRefs : ~Truthy(c.credential_name)
                                                         /\ ~Truthy(c.credential_type) } ],
      payload : { p \in Payloads : DOMAIN p.v = {"channel"} },
      meta : {PyNone} ]

\* an attempt ends with a response, or with an error or timeout
LiveOutcomes == { [ok |-> TRUE, result |-> "result-a"], [ok |-> FALSE, error |-> "timeout"] }

\* the first caller calls the REST tool, the others the message tool
CallLive(t) ==
    /\ task[t].pc = "idle"
    /\ \E r \in LiveRequests :
          /\ (r.tool.descriptor.adapter_type = "rest") <=> (t = 1)
          /\ ExecuteTool(t, r)

CredentialResolved(t) ==
    \E ans \in ToolCredentialAnswers : ResolveToolCredentialReturns(t, ans)

AttemptEnds(t) == \E out \in LiveOutcomes : AttemptCompletes(t, out)

NextLive ==
    \E t \in AllTasks :
        \/ CallLive(t)
        \/ Resume(t)
        \/ CredentialResolved(t)
        \/ AttemptEnds(t)
        \/ SleepDone(t)
        \/ Reset(t)

\* the event loop runs every coroutine that is ready (a woken waiter, a sleep that
\* is over) and every awaited network call completes
Progress(t) == Resume(t) \/ SleepDone(t) \/ CredentialResolved(t) \/ AttemptEnds(t)

Fairness == \A t \in AllTasks : WF_vars(Progress(t))

SpecLive == InitService /\ [][NextLive]_vars /\ Fairness

\* C40: every execute_tool call that was made, suspended at the limiter or not,
\* comes to its end; it ends only after it acquired a slot, within the attempts its
\* executor allows; and a slot is free while a caller waits only as long as a
\* waiter that was woken has not run yet.
C40_EveryCallTerminates ==
    /\ \A t \in AllTasks : (task[t].pc # "idle") ~> (task[t].pc = "done")
    /\ [](\A t \in AllTasks :
             task[t].pc = "done"
                => /\ task[t].acq = 1
                   /\ task[t].kind # "none"
                        => task[t].attempt <= max_retries[task[t].kind] + 1)
    /\ [](semaphore_value > 0 /\ (\E t \in AllTasks : task[t].pc = "waiting")
             => \E u \in AllTasks : task[u].pc = "woken")

\* a waiter was given the slot of a call that ended after a retry
C40_Witness ==
    \E t, u \in AllTasks :
        /\ task[t].pc = "woken"
        /\ task[u].pc = "done" /\ task[u].attempt > 1

====
